---- MODULE Spec2Model ----
(***************************************************************************)
(* Matching and lifecycle engine of teamarr: generation status guard,      *)
(* lifecycle scheduler, managed channels and their streams, lifecycle      *)
(* timing, team/league cache refresh and the event-card matcher.           *)
(* Each subsystem has its own specification; the variables of the other    *)
(* subsystems stay at their initial values.                                *)
(***************************************************************************)
EXTENDS Integers, Sequences, FiniteSets, TLC

(***************************************************************************)
(* Bounds                                                                  *)
(***************************************************************************)
NumWorkers == 2
MaxRuns == 3
MaxLoops == 1
NumManual == 1
MaxTicks == 2
MaxChannels == 2
NumProcs == 2
MaxBatch == 2
MaxBatches == 1
MaxStreamRows == 3
UnitsPerHour == 2
MaxDay == 17
NumRefreshers == 2
MaxRefreshes == 2
MaxToday == 8
MaxGeneration == 2
NumConns == 2
MaxNumbered == 2
MaxRetries == 2
MaxWrites == 4
NumReaders == 2
MaxMatches == 2
MaxOrdered == 2
MaxStarts == 2

None == "None"
\* "no value" for an integer argument (Python None)
NoInt == 0 - 1

(***************************************************************************)
(* Variables                                                               *)
(***************************************************************************)
VARIABLES
    \* api/generation_status.py
    status,       \* _status: in_progress, status, percent
    genPc,        \* per caller: idle / running / late
    genLast,      \* last operation applied to _status and its arguments
    trueCount,    \* start_generation() calls that returned True since the last complete/fail
    runNo,        \* number of successful starts
    \* consumers/scheduler.py
    stopEvent,    \* LifecycleScheduler._stop_event
    running,      \* LifecycleScheduler._running
    loopPc,       \* background loop threads: none / initial / wait / tick / exited
    taskPc,       \* per thread: 0 = outside _run_tasks, k = executing task k
    results,      \* per thread: result of each task of its current tick
    ticks,        \* per thread: number of ticks begun
    epgStep,      \* per thread: position inside _task_generate_epg (0 = settings read)
    stepLog,      \* per thread: the steps of its current tick, in the order they started
    \* database/channels/crud.py
    channels,     \* managed_channels rows, in insertion order (id = position)
    chanLast,     \* last channel operation and what it returned
    \* database/channels/streams.py, consumers/child_processor.py
    mcs,          \* managed_channel_streams rows, committed, in insertion order
    dbWriter,     \* processor holding the database write lock, 0 = none
    proc,         \* per child processor: position, batch, uncommitted rows, result
    batches,      \* per child processor: number of batches begun
    \* consumers/lifecycle/timing.py
    tmCfg,        \* ChannelLifecycleManager: create_timing, delete_timing
    tmEvent,      \* the event: start (user tz), duration in hours
    tmNow,        \* now_user()
    tmStreamExists, \* whether a matching stream currently exists
    tmCreate,     \* LifecycleDecision of should_create_channel at tmNow
    tmDelete,     \* LifecycleDecision of should_delete_channel at tmNow
    \* consumers/cache/refresh.py, api/routes/cache.py
    cacheMeta,    \* the cache_meta row with id = 1 (committed)
    leagueCache,  \* committed rows of league_cache
    teamCache,    \* committed rows of team_cache
    rf,           \* per refresh thread: position in refresh() and its open transaction
    apiRefreshing, \* in-memory status of api/cache_refresh_status
    today,        \* wall clock, in days
    refreshes,    \* number of refreshes started
    \* consumers/matching/event_matcher.py
    fpCache,      \* StreamMatchCache: (group_id, fingerprint) -> entry
    fpGeneration, \* the orchestrator's cache generation counter
    matchLast,    \* the last MatchOutcome returned by EventCardMatcher.match
    \* database/channel_numbers.py
    settingsRow,  \* settings row 1: channel_range_start, channel_range_end
    epgGroups,    \* event_epg_groups rows read by the numbering
    numChannels,  \* managed_channels rows: group, channel_number, deleted
    numConn,      \* per connection: position between reading a number and writing it
    numLast,      \* the last return of get_next_channel_number and the range it ran under
    \* dispatcharr/client.py
    http,         \* DispatcharrClient.request: position, attempt, outcomes so far, return
    \* consumers/scheduler.py, the file at settings.epg_output_path
    epgFile,      \* the output path, its .xml.bak and the position inside the write
    \* services/league_mappings.py, services/detection_keywords.py
    leagueMap,    \* LeagueMappingService: its dicts, the leagues table, the position in reload()
    kwCache,      \* DetectionKeywordService._league_hints and the threads inside get_league_hints
    \* consumers/ufc_segments.py
    ufcExp,       \* expand_ufc_segments: matched_streams and the returned list
    \* services/stream_ordering.py
    ordering,     \* the ordering rules, a channel's stream rows and the list sort_streams returned
    \* consumers/lifecycle/timing.py, categorize_event_timing
    tmCat,        \* the event's status, include_final_events and the returned ExcludedReason
    \* consumers/scheduler.py, LifecycleScheduler.start() and stop()
    schedObj      \* _thread, _running, _stop_event, every loop thread created, the caller

genVars == <<status, genPc, genLast, trueCount, runNo>>
schedVars == <<stopEvent, running, loopPc, taskPc, results, ticks, epgStep, stepLog>>
chanVars == <<channels, chanLast>>
streamVars == <<mcs, dbWriter, proc, batches>>
timingVars == <<tmCfg, tmEvent, tmNow, tmStreamExists, tmCreate, tmDelete>>
refreshVars == <<cacheMeta, leagueCache, teamCache, rf, apiRefreshing, today, refreshes>>
matchVars == <<fpCache, fpGeneration, matchLast>>
numVars == <<settingsRow, epgGroups, numChannels, numConn, numLast>>
\* the adapters and services around the engine
extVars == <<http, epgFile, leagueMap, kwCache, ufcExp, ordering, tmCat, schedObj>>
coreVars == <<genVars, schedVars, chanVars, streamVars, timingVars, refreshVars, matchVars, numVars>>
nonHttpVars == <<coreVars, epgFile, leagueMap, kwCache, ufcExp, ordering, tmCat, schedObj>>
nonFileVars == <<coreVars, http, leagueMap, kwCache, ufcExp, ordering, tmCat, schedObj>>
nonLeagueMapVars == <<coreVars, http, epgFile, kwCache, ufcExp, ordering, tmCat, schedObj>>
nonKwVars == <<coreVars, http, epgFile, leagueMap, ufcExp, ordering, tmCat, schedObj>>
nonUfcVars == <<coreVars, http, epgFile, leagueMap, kwCache, ordering, tmCat, schedObj>>
nonOrderingVars == <<coreVars, http, epgFile, leagueMap, kwCache, ufcExp, tmCat, schedObj>>
nonCategorizeVars == <<coreVars, http, epgFile, leagueMap, kwCache, ufcExp, ordering, schedObj>>
nonSchedObjVars == <<coreVars, http, epgFile, leagueMap, kwCache, ufcExp, ordering, tmCat>>

vars == <<genVars, schedVars, chanVars, streamVars, timingVars, refreshVars, matchVars, numVars, extVars>>
nonGenVars == <<schedVars, chanVars, streamVars, timingVars, refreshVars, matchVars, numVars, extVars>>
nonSchedVars == <<genVars, chanVars, streamVars, timingVars, refreshVars, matchVars, numVars, extVars>>
nonChanVars == <<genVars, schedVars, streamVars, timingVars, refreshVars, matchVars, numVars, extVars>>
nonStreamVars == <<genVars, schedVars, chanVars, timingVars, refreshVars, matchVars, numVars, extVars>>
nonTimingVars == <<genVars, schedVars, chanVars, streamVars, refreshVars, matchVars, numVars, extVars>>
\* the refresh shares the database write lock (dbWriter) with the child processors
nonRefreshVars == <<genVars, schedVars, chanVars, mcs, proc, batches, timingVars, matchVars, numVars, extVars>>
nonMatchVars == <<genVars, schedVars, chanVars, streamVars, timingVars, refreshVars, numVars, extVars>>
nonNumVars == <<genVars, schedVars, chanVars, streamVars, timingVars, refreshVars, matchVars, extVars>>

(***************************************************************************)
(* api/generation_status.py                                                *)
(***************************************************************************)
Workers == 1..NumWorkers
PercentInputs == {0, 10, 55, 100}
StatusInputs == {"progress", "teams"}

\* GenerationStatus() defaults and GenerationStatus.reset()
reset == [in_progress |-> FALSE, status |-> "idle", percent |-> 0]

start_generation_unguarded(st) ==
    [ret |-> TRUE,
     st |-> [reset EXCEPT !.in_progress = TRUE, !.status = "starting", !.percent = 0]]

\* start_generation(): returns False when a generation is already in progress
start_generation(st) ==
    IF st.in_progress
    THEN [ret |-> FALSE, st |-> st]
    ELSE [ret |-> TRUE,
          st |-> [reset EXCEPT !.in_progress = TRUE, !.status = "starting", !.percent = 0]]

update_status_overwrite(st, s, p) ==
    [st EXCEPT !.status = IF s # None THEN s ELSE @,
               !.percent = IF p # NoInt THEN p ELSE @]

\* update_status(status=s, percent=p): None leaves a field alone; percent only grows
update_status(st, s, p) ==
    [st EXCEPT !.status = IF s # None THEN s ELSE @,
               !.percent = IF p # NoInt /\ p > @ THEN p ELSE @]

\* complete_generation(result)
complete_generation(st) ==
    [st EXCEPT !.in_progress = FALSE, !.status = "complete", !.percent = 100]

\* fail_generation(error)
fail_generation(st) ==
    [st EXCEPT !.in_progress = FALSE, !.status = "error"]

\* get_status(): the dict of the fields, taken under the lock
get_status == status

InitGen ==
    /\ status = reset
    /\ genPc = [w \in Workers |-> "idle"]
    /\ genLast = [op |-> "init", by |-> 0, status |-> None, percent |-> NoInt, ret |-> TRUE,
                  before |-> 0]
    /\ trueCount = 0
    /\ runNo = 0

\* A trigger (scheduler tick, API request) calls start_generation()
StartGeneration(w) ==
    /\ genPc[w] = "idle"
    /\ runNo < MaxRuns
    /\ LET r == start_generation(status) IN
        /\ status' = r.st
        /\ genPc' = [genPc EXCEPT ![w] = IF r.ret THEN "running" ELSE "idle"]
        /\ trueCount' = IF r.ret THEN trueCount + 1 ELSE trueCount
        /\ runNo' = IF r.ret THEN runNo + 1 ELSE runNo
        /\ genLast' = [op |-> "start", by |-> w, status |-> None, percent |-> NoInt,
                       ret |-> r.ret, before |-> status.percent]
    /\ UNCHANGED nonGenVars

\* The run that holds the guard, or a progress callback of a run that has
\* already ended, calls update_status()
UpdateStatus(w, s, p) ==
    /\ genPc[w] \in {"running", "late"}
    /\ status' = update_status(status, s, p)
    /\ genLast' = [op |-> "update", by |-> w, status |-> s, percent |-> p, ret |-> TRUE,
                   before |-> status.percent]
    /\ UNCHANGED <<genPc, trueCount, runNo>>
    /\ UNCHANGED nonGenVars

CompleteGeneration(w) ==
    /\ genPc[w] = "running"
    /\ status' = complete_generation(status)
    /\ genPc' = [genPc EXCEPT ![w] = "late"]
    /\ trueCount' = 0
    /\ genLast' = [op |-> "complete", by |-> w, status |-> None, percent |-> NoInt,
                   ret |-> TRUE, before |-> status.percent]
    /\ UNCHANGED runNo
    /\ UNCHANGED nonGenVars

FailGeneration(w) ==
    /\ genPc[w] = "running"
    /\ status' = fail_generation(status)
    /\ genPc' = [genPc EXCEPT ![w] = "late"]
    /\ trueCount' = 0
    /\ genLast' = [op |-> "fail", by |-> w, status |-> None, percent |-> NoInt,
                   ret |-> TRUE, before |-> status.percent]
    /\ UNCHANGED runNo
    /\ UNCHANGED nonGenVars

\* The last progress callback of an ended run has returned
CallbacksDone(w) ==
    /\ genPc[w] = "late"
    /\ genPc' = [genPc EXCEPT ![w] = "idle"]
    /\ UNCHANGED <<status, genLast, trueCount, runNo>>
    /\ UNCHANGED nonGenVars

(***************************************************************************)
(* consumers/scheduler.py                                                  *)
(***************************************************************************)
LoopIds == 1..MaxLoops
ManualIds == (MaxLoops + 1)..(MaxLoops + NumManual)
Threads == LoopIds \cup ManualIds

TasksDeletionsFirst == <<"deletions", "epg_generation", "reconciliation", "cleanup">>

\* the tasks of _run_tasks, in source order
Tasks == <<"epg_generation", "deletions", "reconciliation", "cleanup">>
NumTasks == Len(Tasks)
NoResults == [k \in 1..NumTasks |-> "none"]

\* the steps of _task_generate_epg that process accounts, teams and groups
EpgSteps == <<"m3u_refresh", "teams", "groups">>

\* a task that starts is logged; the EPG task logs its own steps as they start
StartLog(log, task) == IF task = "epg_generation" THEN log ELSE Append(log, task)

\* number of threads that are inside _run_tasks
TicksInProgress == Cardinality({t \in Threads : taskPc[t] # 0})

InitSched ==
    /\ stopEvent = FALSE
    /\ running = FALSE
    /\ loopPc = [l \in LoopIds |-> "none"]
    /\ taskPc = [t \in Threads |-> 0]
    /\ results = [t \in Threads |-> NoResults]
    /\ ticks = [t \in Threads |-> 0]
    /\ epgStep = [t \in Threads |-> 0]
    /\ stepLog = [t \in Threads |-> <<>>]

\* _run_tasks entry: self._last_run = now, results = {...}, first task starts
BeginTick(t) ==
    /\ taskPc' = [taskPc EXCEPT ![t] = 1]
    /\ results' = [results EXCEPT ![t] = NoResults]
    /\ ticks' = [ticks EXCEPT ![t] = @ + 1]
    /\ epgStep' = [epgStep EXCEPT ![t] = 0]
    /\ stepLog' = [stepLog EXCEPT ![t] = StartLog(<<>>, Tasks[1])]

\* LifecycleScheduler.start(): no-op when is_running, else clear the stop
\* event and start the loop thread, which runs the tasks immediately
SchedStart(l) ==
    /\ loopPc[l] = "none"
    /\ ~(running /\ \E k \in LoopIds : loopPc[k] \in {"initial", "wait", "tick"})
    /\ stopEvent' = FALSE
    /\ running' = TRUE
    /\ loopPc' = [loopPc EXCEPT ![l] = "initial"]
    /\ UNCHANGED <<taskPc, results, ticks, epgStep, stepLog>>
    /\ UNCHANGED nonSchedVars

\* _run_loop: "Run immediately on startup"
LoopInitialRun(l) ==
    /\ loopPc[l] = "initial"
    /\ taskPc[l] = 0
    /\ BeginTick(l)
    /\ loopPc' = [loopPc EXCEPT ![l] = "tick"]
    /\ UNCHANGED <<stopEvent, running>>
    /\ UNCHANGED nonSchedVars

\* _run_loop: the interval has elapsed without the stop event being set
LoopIntervalRun(l) ==
    /\ loopPc[l] = "wait"
    /\ ~stopEvent
    /\ ticks[l] < MaxTicks
    /\ BeginTick(l)
    /\ loopPc' = [loopPc EXCEPT ![l] = "tick"]
    /\ UNCHANGED <<stopEvent, running>>
    /\ UNCHANGED nonSchedVars

\* _run_loop: the stop event is seen while waiting (or by the while test)
LoopExit(l) ==
    /\ loopPc[l] = "wait"
    /\ stopEvent
    /\ loopPc' = [loopPc EXCEPT ![l] = "exited"]
    /\ UNCHANGED <<stopEvent, running, taskPc, results, ticks, epgStep, stepLog>>
    /\ UNCHANGED nonSchedVars

\* POST /scheduler/run -> run_once() -> _run_tasks(), on a request thread
ManualRun(m) ==
    /\ taskPc[m] = 0
    /\ ticks[m] < MaxTicks
    /\ BeginTick(m)
    /\ UNCHANGED <<stopEvent, running, loopPc>>
    /\ UNCHANGED nonSchedVars

\* _task_generate_epg after the settings are read and an output path is
\* configured: the M3U accounts are refreshed when there is a Dispatcharr
\* client, then process_all_teams runs, then process_all_event_groups
EpgStep(t, client) ==
    /\ taskPc[t] # 0
    /\ Tasks[taskPc[t]] = "epg_generation"
    /\ epgStep[t] < Len(EpgSteps)
    /\ LET next == IF epgStep[t] = 0 /\ ~client THEN 2 ELSE epgStep[t] + 1 IN
        /\ epgStep' = [epgStep EXCEPT ![t] = next]
        /\ stepLog' = [stepLog EXCEPT ![t] = Append(@, EpgSteps[next])]
    /\ UNCHANGED <<stopEvent, running, loopPc, taskPc, results, ticks>>
    /\ UNCHANGED nonSchedVars

TaskStepAbortOnError(t, outcome) ==
    /\ taskPc[t] # 0
    /\ (outcome = "ok" /\ Tasks[taskPc[t]] = "epg_generation") => epgStep[t] \in {0, Len(EpgSteps)}
    /\ results' = [results EXCEPT ![t][taskPc[t]] = outcome]
    /\ taskPc' = [taskPc EXCEPT ![t] = IF @ = NumTasks \/ outcome = "error" THEN 0 ELSE @ + 1]
    /\ epgStep' = [epgStep EXCEPT ![t] = 0]
    /\ stepLog' = [stepLog EXCEPT ![t] =
            IF taskPc[t] = NumTasks \/ outcome = "error" THEN @ ELSE StartLog(@, Tasks[taskPc[t] + 1])]
    /\ loopPc' = IF t \in LoopIds /\ (taskPc[t] = NumTasks \/ outcome = "error")
                 THEN [loopPc EXCEPT ![t] = "wait"]
                 ELSE loopPc
    /\ UNCHANGED <<stopEvent, running, ticks>>
    /\ UNCHANGED nonSchedVars

\* _run_tasks: the current task returns (ok) or raises (caught, logged,
\* recorded as {"error": ...}); the next task starts, or the tick ends.
\* _task_generate_epg returns early when no output path is configured, and
\* otherwise after the groups are processed; it can raise at any step.
TaskStep(t, outcome) ==
    /\ taskPc[t] # 0
    /\ (outcome = "ok" /\ Tasks[taskPc[t]] = "epg_generation") => epgStep[t] \in {0, Len(EpgSteps)}
    /\ results' = [results EXCEPT ![t][taskPc[t]] = outcome]
    /\ taskPc' = [taskPc EXCEPT ![t] = IF @ = NumTasks THEN 0 ELSE @ + 1]
    /\ epgStep' = [epgStep EXCEPT ![t] = 0]
    /\ stepLog' = [stepLog EXCEPT ![t] =
            IF taskPc[t] = NumTasks THEN @ ELSE StartLog(@, Tasks[taskPc[t] + 1])]
    /\ loopPc' = IF t \in LoopIds /\ taskPc[t] = NumTasks
                 THEN [loopPc EXCEPT ![t] = "wait"]
                 ELSE loopPc
    /\ UNCHANGED <<stopEvent, running, ticks>>
    /\ UNCHANGED nonSchedVars

\* LifecycleScheduler.stop(): set the stop event, clear _running, join
SchedStop ==
    /\ running
    /\ \E k \in LoopIds : loopPc[k] \in {"initial", "wait", "tick"}
    /\ stopEvent' = TRUE
    /\ running' = FALSE
    /\ UNCHANGED <<loopPc, taskPc, results, ticks, epgStep, stepLog>>
    /\ UNCHANGED nonSchedVars

(***************************************************************************)
(* consumers/scheduler.py: LifecycleScheduler.start() and stop()           *)
(* The loop threads a scheduler object has created, each either inside     *)
(* _run_tasks ("tick"), in the interval wait of _run_loop ("wait") or      *)
(* returned ("exited").                                                    *)
(***************************************************************************)
LoopThreads == 1..MaxStarts
NoThread == 0
NoCall == [op |-> "none", ret |-> FALSE, created |-> NoThread]

\* LifecycleScheduler.__init__
InitSchedObj ==
    schedObj = [thread |-> NoThread, running |-> FALSE, stop_event |-> FALSE,
                pc |-> [t \in LoopThreads |-> "none"],
                ticks |-> [t \in LoopThreads |-> 0],
                caller |-> "idle", last |-> NoCall]

\* threading.Thread.is_alive()
is_alive(o, t) == t # NoThread /\ o.pc[t] \in {"tick", "wait"}

\* the loop threads that are alive
AliveLoops == {t \in LoopThreads : is_alive(schedObj, t)}

\* LifecycleScheduler.is_running
is_running(o) == o.running /\ o.thread # NoThread /\ is_alive(o, o.thread)

\* LifecycleScheduler.start(): False when is_running; else the stop event is
\* cleared and a new thread runs _run_loop, which calls _run_tasks at once
ObjStart ==
    /\ schedObj.caller = "idle"
    /\ IF is_running(schedObj)
       THEN schedObj' = [schedObj EXCEPT !.last = [op |-> "start", ret |-> FALSE,
                                                    created |-> NoThread]]
       ELSE \E t \in LoopThreads :
              /\ schedObj.pc[t] = "none"
              /\ \A u \in LoopThreads : u < t => schedObj.pc[u] # "none"
              /\ schedObj' = [schedObj EXCEPT !.stop_event = FALSE, !.running = TRUE,
                                  !.thread = t, !.pc[t] = "tick", !.ticks[t] = 1,
                                  !.last = [op |-> "start", ret |-> TRUE, created |-> t]]
    /\ UNCHANGED nonSchedObjVars

\* LifecycleScheduler.stop(): True at once when not is_running; else the stop
\* event is set, _running is cleared and the caller joins the thread
ObjStopBegin ==
    /\ schedObj.caller = "idle"
    /\ IF ~is_running(schedObj)
       THEN schedObj' = [schedObj EXCEPT !.last = [op |-> "stop", ret |-> TRUE,
                                                    created |-> NoThread]]
       ELSE schedObj' = [schedObj EXCEPT !.stop_event = TRUE, !.running = FALSE,
                                         !.caller = "joining"]
    /\ UNCHANGED nonSchedObjVars

\* stop(): join returned because the thread ended
ObjStopJoined ==
    /\ schedObj.caller = "joining"
    /\ ~is_alive(schedObj, schedObj.thread)
    /\ schedObj' = [schedObj EXCEPT !.caller = "idle",
                        !.last = [op |-> "stop", ret |-> TRUE, created |-> NoThread]]
    /\ UNCHANGED nonSchedObjVars

\* stop(): join(timeout) returned while the thread is still inside _run_tasks
ObjStopTimeout ==
    /\ schedObj.caller = "joining"
    /\ schedObj.pc[schedObj.thread] = "tick"
    /\ schedObj' = [schedObj EXCEPT !.caller = "idle",
                        !.last = [op |-> "stop", ret |-> FALSE, created |-> NoThread]]
    /\ UNCHANGED nonSchedObjVars

\* _run_loop: _run_tasks returned or raised; the thread tests the stop event
\* in the while condition and returns, or enters the interval wait
ObjTasksDone(t) ==
    /\ schedObj.pc[t] = "tick"
    /\ schedObj' = [schedObj EXCEPT !.pc[t] = IF schedObj.stop_event THEN "exited" ELSE "wait"]
    /\ UNCHANGED nonSchedObjVars

\* _run_loop: the stop event is seen during the interval wait
ObjLoopExit(t) ==
    /\ schedObj.pc[t] = "wait"
    /\ schedObj.stop_event
    /\ schedObj' = [schedObj EXCEPT !.pc[t] = "exited"]
    /\ UNCHANGED nonSchedObjVars

\* _run_loop: the interval elapsed with the stop event clear; _run_tasks runs
ObjIntervalRun(t) ==
    /\ schedObj.pc[t] = "wait"
    /\ ~schedObj.stop_event
    /\ schedObj.ticks[t] < MaxTicks
    /\ schedObj' = [schedObj EXCEPT !.pc[t] = "tick", !.ticks[t] = @ + 1]
    /\ UNCHANGED nonSchedObjVars

(***************************************************************************)
(* database/channels/crud.py                                               *)
(***************************************************************************)
Groups == {1, 2, 3}
\* event_epg_groups.duplicate_mode of each group
DuplicateMode == [g \in Groups |->
    IF g = 1 THEN "consolidate" ELSE IF g = 2 THEN "separate" ELSE "ignore"]
\* (event_id, event_provider): event ids are provider-scoped
EventRefs == {[id |-> "401", provider |-> "espn"], [id |-> "401", provider |-> "tsdb"]}
\* labels of consolidation_exception_keywords (min_length = 1), None = no keyword
Keywords == {None, "Spanish"}
StreamIds == {1, 2}

ChannelIds == 1..Len(channels)

\* SQL truthiness of a str | None argument: None and "" are falsy
Truthy(x) == x # None /\ x # ""

\* the rows a SELECT returns, as the set of ids that satisfy pred; fetchone()
\* yields the row with the lowest rowid, 0 stands for None
FirstRow(ids) == IF ids = {} THEN 0 ELSE CHOOSE i \in ids : \A j \in ids : i <= j

find_existing_channel_any_keyword(rows, group_id, event_id, event_provider, exception_keyword, stream_id, mode) ==
    IF mode = "separate"
    THEN IF stream_id # 0
         THEN FirstRow({i \in DOMAIN rows :
                /\ rows[i].event_epg_group_id = group_id
                /\ rows[i].event_id = event_id
                /\ rows[i].event_provider = event_provider
                /\ rows[i].primary_stream_id = stream_id
                /\ ~rows[i].deleted})
         ELSE 0
    ELSE IF mode = "ignore"
    THEN FirstRow({i \in DOMAIN rows :
                /\ rows[i].event_epg_group_id = group_id
                /\ rows[i].event_id = event_id
                /\ rows[i].event_provider = event_provider
                /\ ~rows[i].deleted})
    ELSE FirstRow({i \in DOMAIN rows :
                /\ rows[i].event_epg_group_id = group_id
                /\ rows[i].event_id = event_id
                /\ rows[i].event_provider = event_provider
                /\ rows[i].exception_keyword = None
                /\ ~rows[i].deleted})

find_existing_channel_separate_always_new(rows, group_id, event_id, event_provider, exception_keyword, stream_id, mode) ==
    IF mode = "separate" THEN 0
    ELSE FirstRow({i \in DOMAIN rows :
                /\ rows[i].event_epg_group_id = group_id
                /\ rows[i].event_id = event_id
                /\ rows[i].event_provider = event_provider
                /\ (mode = "ignore" \/ rows[i].exception_keyword = exception_keyword)
                /\ ~rows[i].deleted})

\* find_existing_channel(conn, group_id, event_id, event_provider,
\*                       exception_keyword, stream_id, mode)
find_existing_channel(rows, group_id, event_id, event_provider, exception_keyword, stream_id, mode) ==
    IF mode = "separate"
    THEN IF stream_id # 0
         THEN FirstRow({i \in DOMAIN rows :
                /\ rows[i].event_epg_group_id = group_id
                /\ rows[i].event_id = event_id
                /\ rows[i].event_provider = event_provider
                /\ rows[i].primary_stream_id = stream_id
                /\ ~rows[i].deleted})
         ELSE 0
    ELSE IF mode = "ignore"
    THEN FirstRow({i \in DOMAIN rows :
                /\ rows[i].event_epg_group_id = group_id
                /\ rows[i].event_id = event_id
                /\ rows[i].event_provider = event_provider
                /\ ~rows[i].deleted})
    ELSE IF Truthy(exception_keyword)
    THEN FirstRow({i \in DOMAIN rows :
                /\ rows[i].event_epg_group_id = group_id
                /\ rows[i].event_id = event_id
                /\ rows[i].event_provider = event_provider
                /\ rows[i].exception_keyword = exception_keyword
                /\ ~rows[i].deleted})
    ELSE FirstRow({i \in DOMAIN rows :
                /\ rows[i].event_epg_group_id = group_id
                /\ rows[i].event_id = event_id
                /\ rows[i].event_provider = event_provider
                /\ rows[i].exception_keyword = None
                /\ ~rows[i].deleted})

\* create_managed_channel(...): plain INSERT; a kwarg that is None is left
\* out of the column list, so the column is NULL
create_managed_channel(rows, group_id, event_id, event_provider, exception_keyword, primary_stream_id) ==
    Append(rows, [event_epg_group_id |-> group_id,
                  event_id |-> event_id,
                  event_provider |-> event_provider,
                  exception_keyword |-> exception_keyword,
                  primary_stream_id |-> primary_stream_id,
                  deleted |-> FALSE, delete_reason |-> None])

\* reason the lifecycle gives when it deletes a channel
DeleteReasons == {"event_ended"}

mark_channel_deleted_removing_row(rows, channel_id, reason) ==
    [i \in 1..(Len(rows) - 1) |-> IF i < channel_id THEN rows[i] ELSE rows[i + 1]]

\* mark_channel_deleted(conn, channel_id, reason): UPDATE managed_channels
\* SET deleted_at = datetime('now'), delete_reason = ? WHERE id = ?
mark_channel_deleted(rows, channel_id, reason) ==
    [i \in DOMAIN rows |->
        IF i = channel_id THEN [rows[i] EXCEPT !.deleted = TRUE, !.delete_reason = reason]
        ELSE rows[i]]

\* find_parent_channel_for_event(conn, parent_group_id, event_id,
\*                               event_provider, exception_keyword)
find_parent_channel_for_event(rows, parent_group_id, event_id, event_provider, exception_keyword) ==
    IF Truthy(exception_keyword)
    THEN FirstRow({i \in DOMAIN rows :
                /\ rows[i].event_epg_group_id = parent_group_id
                /\ rows[i].event_id = event_id
                /\ rows[i].event_provider = event_provider
                /\ rows[i].exception_keyword = exception_keyword
                /\ ~rows[i].deleted})
    ELSE FirstRow({i \in DOMAIN rows :
                /\ rows[i].event_epg_group_id = parent_group_id
                /\ rows[i].event_id = event_id
                /\ rows[i].event_provider = event_provider
                /\ (rows[i].exception_keyword = None \/ rows[i].exception_keyword = "")
                /\ ~rows[i].deleted})

InitChan ==
    /\ channels = <<>>
    /\ chanLast = [op |-> "init", id |-> 0]

\* Channel upsert of the channel manager: look the channel up with the
\* group's duplicate mode and create it only when none is found
FindOrCreate(g, ev, kw, sid) ==
    LET found == find_existing_channel(channels, g, ev.id, ev.provider, kw, sid,
                                       DuplicateMode[g]) IN
    IF found # 0
    THEN /\ chanLast' = [op |-> "found", id |-> found]
         /\ UNCHANGED channels
         /\ UNCHANGED nonChanVars
    ELSE /\ Len(channels) < MaxChannels
         /\ channels' = create_managed_channel(channels, g, ev.id, ev.provider, kw, sid)
         /\ chanLast' = [op |-> "created", id |-> Len(channels) + 1]
         /\ UNCHANGED nonChanVars

\* Soft delete of a channel (scheduled deletion, reconciliation)
MarkChannelDeleted(id, reason) ==
    /\ id \in ChannelIds
    /\ ~channels[id].deleted
    /\ channels' = mark_channel_deleted(channels, id, reason)
    /\ chanLast' = [op |-> "deleted", id |-> id]
    /\ UNCHANGED nonChanVars

(***************************************************************************)
(* database/channels/streams.py                                            *)
(***************************************************************************)
\* stream_exists_on_channel(conn, managed_channel_id, dispatcharr_stream_id)
stream_exists_on_channel(rows, managed_channel_id, dispatcharr_stream_id) ==
    \E i \in DOMAIN rows :
        /\ rows[i].managed_channel_id = managed_channel_id
        /\ rows[i].dispatcharr_stream_id = dispatcharr_stream_id
        /\ ~rows[i].removed

\* largest element of a non-empty set of integers
SetMax(S) == CHOOSE x \in S : \A y \in S : y <= x

\* get_next_stream_priority: COALESCE(MAX(priority), -1) + 1 over active rows
get_next_stream_priority(rows, managed_channel_id) ==
    LET ps == {rows[i].priority : i \in {j \in DOMAIN rows :
                    /\ rows[j].managed_channel_id = managed_channel_id
                    /\ ~rows[j].removed}} IN
    IF ps = {} THEN 0 ELSE SetMax(ps) + 1

\* add_stream_to_channel: plain INSERT INTO managed_channel_streams
add_stream_to_channel(rows, managed_channel_id, dispatcharr_stream_id, priority, source_group_type, exception_keyword) ==
    Append(rows, [managed_channel_id |-> managed_channel_id,
                  dispatcharr_stream_id |-> dispatcharr_stream_id,
                  priority |-> priority,
                  source_group_type |-> source_group_type,
                  exception_keyword |-> exception_keyword,
                  removed |-> FALSE])

\* remove_stream_from_channel: UPDATE ... SET removed_at WHERE channel, stream
\* and removed_at IS NULL
remove_stream_from_channel(rows, managed_channel_id, dispatcharr_stream_id) ==
    [i \in DOMAIN rows |->
        IF /\ rows[i].managed_channel_id = managed_channel_id
           /\ rows[i].dispatcharr_stream_id = dispatcharr_stream_id
           /\ ~rows[i].removed
        THEN [rows[i] EXCEPT !.removed = TRUE]
        ELSE rows[i]]

\* number of active rows of a (channel, stream) pair
ActiveCount(rows, c, sid) ==
    Cardinality({i \in DOMAIN rows :
        /\ rows[i].managed_channel_id = c
        /\ rows[i].dispatcharr_stream_id = sid
        /\ ~rows[i].removed})

(***************************************************************************)
(* consumers/child_processor.py                                            *)
(***************************************************************************)
Procs == 1..NumProcs
ParentGroup == 1
NoEvent == [id |-> None, provider |-> None]

\* the enabled exception keywords: term in the stream name -> (label, behavior)
\* check_exception_keyword(stream_name, keywords) -> (matched_keyword, behavior)
check_exception_keyword(name_term) ==
    IF name_term = "Spanish" THEN <<"Spanish", "consolidate">>
    ELSE IF name_term = "Replay" THEN <<"Replay", "ignore">>
    ELSE <<None, None>>

\* matched streams a child group can hand to the processor
MatchedInputs ==
    {[id |-> 1, term |-> None, event |-> [id |-> "401", provider |-> "espn"]],
     [id |-> 2, term |-> "Spanish", event |-> [id |-> "401", provider |-> "espn"]],
     [id |-> 1, term |-> "Spanish", event |-> [id |-> "401", provider |-> "espn"]],
     [id |-> 2, term |-> "Replay", event |-> [id |-> "401", provider |-> "espn"]],
     [id |-> 1, term |-> None, event |-> [id |-> "401", provider |-> "tsdb"]],
     [id |-> 2, term |-> None, event |-> NoEvent]}

ChannelRow(g, ev, kw, sid) ==
    [event_epg_group_id |-> g, event_id |-> ev.id, event_provider |-> ev.provider,
     exception_keyword |-> kw, primary_stream_id |-> sid, deleted |-> FALSE,
     delete_reason |-> None]

\* channel tables the parent group may have built before the child runs
ParentTables ==
    LET ev == [id |-> "401", provider |-> "espn"]
        main == ChannelRow(ParentGroup, ev, None, 1)
        spanish == ChannelRow(ParentGroup, ev, "Spanish", 2)
        gone(row) == [row EXCEPT !.deleted = TRUE, !.delete_reason = "event_ended"] IN
    {<<>>, <<main>>, <<spanish>>, <<main, spanish>>,
     <<main, gone(spanish)>>, <<gone(main), spanish>>}

IdleProc == [pc |-> "idle", n |-> 0, pending |-> <<>>, target |-> 0, cur |-> NoEvent,
             priority |-> 0, keyword |-> None, size |-> 0, committed |-> 0, reason |-> "",
             added |-> 0, skipped |-> 0, existing |-> 0, errors |-> 0]

\* rows a processor's connection sees: committed rows and its own uncommitted ones
Visible(p) == mcs \o proc[p].pending

ParentChannelForKeywordOnly(rows, ev, matched_keyword) ==
    find_parent_channel_for_event(rows, ParentGroup, ev.id, ev.provider, matched_keyword)

\* the parent channel a child stream goes to: the keyword channel, else (when
\* the stream has a keyword) the main channel, else 0
ParentChannelFor(rows, ev, matched_keyword) ==
    LET first == find_parent_channel_for_event(rows, ParentGroup, ev.id, ev.provider,
                                               matched_keyword) IN
    IF first = 0 /\ Truthy(matched_keyword)
    THEN find_parent_channel_for_event(rows, ParentGroup, ev.id, ev.provider, None)
    ELSE first

ChildCreateMissingParent(rows, ev, matched_keyword) ==
    create_managed_channel(rows, ParentGroup, ev.id, ev.provider, matched_keyword, 0)

\* "if not parent_channel": the stream is reported skipped and the loop
\* continues; the managed channels stay as they are
ChildSkipNoParent(rows, ev, matched_keyword) == rows

InitStreams ==
    /\ mcs = <<>>
    /\ dbWriter = 0
    /\ proc = [p \in Procs |-> IdleProc]
    /\ batches = [p \in Procs |-> 0]

\* process_child_streams entry: result = ChildProcessResult(), connection opened
ProcBegin(p) ==
    /\ proc[p].pc = "idle"
    /\ batches[p] < MaxBatches
    /\ \E size \in 1..MaxBatch :
        proc' = [proc EXCEPT ![p] = [IdleProc EXCEPT !.pc = "loop", !.size = size]]
    /\ batches' = [batches EXCEPT ![p] = @ + 1]
    /\ UNCHANGED <<mcs, dbWriter>>
    /\ UNCHANGED nonStreamVars

\* one iteration of the loop up to the existence check: the stream is
\* rejected (no event), skipped (ignore keyword, no parent channel), found
\* already attached, or is about to be inserted
ProcExamine(p, m) ==
    /\ proc[p].pc = "loop"
    /\ proc[p].n < proc[p].size
    /\ LET kwb == check_exception_keyword(m.term)
           ch == ParentChannelFor(channels, m.event, kwb[1])
           base == [proc[p] EXCEPT !.n = @ + 1, !.cur = m.event] IN
        proc' = [proc EXCEPT ![p] =
            IF m.event = NoEvent THEN [base EXCEPT !.errors = @ + 1]
            ELSE IF kwb[2] = "ignore"
                 THEN [base EXCEPT !.skipped = @ + 1, !.reason = "Exception keyword set to ignore"]
            ELSE IF ch = 0
                 THEN [base EXCEPT !.skipped = @ + 1, !.reason = "No parent channel for event"]
            ELSE IF stream_exists_on_channel(Visible(p), ch, m.id)
                 THEN [base EXCEPT !.existing = @ + 1]
            ELSE [base EXCEPT !.pc = "insert", !.target = ch, !.cur = m,
                              !.keyword = kwb[1],
                              !.priority = get_next_stream_priority(Visible(p), ch)]]
    /\ LET kwb == check_exception_keyword(m.term) IN
        channels' = IF /\ m.event # NoEvent
                       /\ kwb[2] # "ignore"
                       /\ ParentChannelFor(channels, m.event, kwb[1]) = 0
                    THEN ChildSkipNoParent(channels, m.event, kwb[1])
                    ELSE channels
    /\ UNCHANGED <<mcs, dbWriter, batches>>
    /\ UNCHANGED <<genVars, schedVars, chanLast, timingVars, refreshVars, matchVars, numVars, extVars>>

\* a statement of the loop body raises for one stream (a matched entry
\* without a stream dict, an event without id, a failing INSERT): the except
\* around the whole batch records one error, get_db rolls the connection
\* back and the remaining streams are not visited
ProcStreamError(p) ==
    /\ proc[p].pc = "loop"
    /\ proc[p].n < proc[p].size
    /\ proc' = [proc EXCEPT ![p] = [@ EXCEPT !.pc = "done", !.n = @ + 1,
                                             !.pending = <<>>, !.errors = @ + 1]]
    /\ dbWriter' = IF dbWriter = p THEN 0 ELSE dbWriter
    /\ UNCHANGED <<mcs, batches>>
    /\ UNCHANGED nonStreamVars

\* add_stream_to_channel: the INSERT takes the database write lock for the
\* connection's transaction; history is logged and the stream is reported added
ProcInsert(p) ==
    /\ proc[p].pc = "insert"
    /\ dbWriter \in {0, p}
    /\ Len(mcs) + Len(proc[p].pending) < MaxStreamRows
    /\ dbWriter' = p
    /\ proc' = [proc EXCEPT ![p] =
            [@ EXCEPT !.pc = "loop",
                      !.pending = add_stream_to_channel(@, proc[p].target, proc[p].cur.id,
                                     proc[p].priority, "child", proc[p].keyword),
                      !.added = @ + 1]]
    /\ UNCHANGED <<mcs, batches>>
    /\ UNCHANGED nonStreamVars

\* the write lock is held by another connection until the busy timeout:
\* sqlite3.OperationalError, caught by the except around the batch; get_db
\* rolls the connection back
ProcInsertLocked(p) ==
    /\ proc[p].pc = "insert"
    /\ dbWriter \notin {0, p}
    /\ proc' = [proc EXCEPT ![p] = [@ EXCEPT !.pc = "done", !.pending = <<>>,
                                             !.errors = @ + 1]]
    /\ UNCHANGED <<mcs, dbWriter, batches>>
    /\ UNCHANGED nonStreamVars

\* end of the loop: conn.commit()
ProcCommit(p) ==
    /\ proc[p].pc = "loop"
    /\ proc[p].n = proc[p].size
    /\ mcs' = mcs \o proc[p].pending
    /\ dbWriter' = IF dbWriter = p THEN 0 ELSE dbWriter
    /\ proc' = [proc EXCEPT ![p] = [@ EXCEPT !.pc = "done", !.pending = <<>>,
                                             !.committed = Len(proc[p].pending)]]
    /\ UNCHANGED batches
    /\ UNCHANGED nonStreamVars

\* the result has been returned to the caller
ProcReturn(p) ==
    /\ proc[p].pc = "done"
    /\ proc' = [proc EXCEPT ![p] = IdleProc]
    /\ UNCHANGED <<mcs, dbWriter, batches>>
    /\ UNCHANGED nonStreamVars

\* a stream that left the M3U group is detached from its channel
RemoveStream(c, sid) ==
    /\ dbWriter = 0
    /\ stream_exists_on_channel(mcs, c, sid)
    /\ mcs' = remove_stream_from_channel(mcs, c, sid)
    /\ UNCHANGED <<dbWriter, proc, batches>>
    /\ UNCHANGED nonStreamVars

(***************************************************************************)
(* consumers/lifecycle/timing.py                                           *)
(* Times are wall-clock instants in the user's timezone, counted in units  *)
(* of 1/UnitsPerHour hour from midnight of day 0.  The last unit of a day  *)
(* stands for datetime.max.time() (23:59:59.999999).                       *)
(***************************************************************************)
HoursPerDay == 24
Hour == UnitsPerHour
Day == HoursPerDay * Hour
NoTime == 0 - 1

CreateTimings == {"stream_available", "same_day", "day_before", "2_days_before",
                  "3_days_before", "1_week_before"}
DeleteTimings == {"stream_removed", "6_hours_after", "same_day", "day_after",
                  "2_days_after", "3_days_after", "1_week_after"}

\* event_start.replace(hour=0, minute=0, second=0, microsecond=0)
day_start(t) == (t \div Day) * Day
\* datetime.combine(end_date, datetime.max.time())
day_end(t) == (t \div Day) * Day + (Day - 1)

\* event_start + timedelta(hours=get_sport_duration(...))
event_end(ev) == ev.start + ev.duration * Hour

_calculate_create_threshold_added(ev, create_timing) ==
    CASE create_timing = "same_day" -> day_start(ev.start)
      [] create_timing = "day_before" -> day_start(ev.start) + 1 * Day
      [] create_timing = "2_days_before" -> day_start(ev.start) + 2 * Day
      [] create_timing = "3_days_before" -> day_start(ev.start) + 3 * Day
      [] create_timing = "1_week_before" -> day_start(ev.start) + 7 * Day
      [] OTHER -> day_start(ev.start)

\* _calculate_create_threshold: timing_map.get(self.create_timing, day_start)
_calculate_create_threshold(ev, create_timing) ==
    CASE create_timing = "same_day" -> day_start(ev.start)
      [] create_timing = "day_before" -> day_start(ev.start) - 1 * Day
      [] create_timing = "2_days_before" -> day_start(ev.start) - 2 * Day
      [] create_timing = "3_days_before" -> day_start(ev.start) - 3 * Day
      [] create_timing = "1_week_before" -> day_start(ev.start) - 7 * Day
      [] OTHER -> day_start(ev.start)

_calculate_delete_threshold_day_after_late(ev, delete_timing) ==
    CASE delete_timing = "6_hours_after" -> event_end(ev) + 6 * Hour
      [] delete_timing = "same_day" -> day_end(event_end(ev))
      [] delete_timing = "day_after" -> day_end(event_end(ev)) + 2 * Day
      [] delete_timing = "2_days_after" -> day_end(event_end(ev)) + 2 * Day
      [] delete_timing = "3_days_after" -> day_end(event_end(ev)) + 3 * Day
      [] delete_timing = "1_week_after" -> day_end(event_end(ev)) + 7 * Day
      [] OTHER -> NoTime

\* _calculate_delete_threshold: timing_map.get(self.delete_timing), None for
\* stream_removed
_calculate_delete_threshold(ev, delete_timing) ==
    CASE delete_timing = "6_hours_after" -> event_end(ev) + 6 * Hour
      [] delete_timing = "same_day" -> day_end(event_end(ev))
      [] delete_timing = "day_after" -> day_end(event_end(ev)) + 1 * Day
      [] delete_timing = "2_days_after" -> day_end(event_end(ev)) + 2 * Day
      [] delete_timing = "3_days_after" -> day_end(event_end(ev)) + 3 * Day
      [] delete_timing = "1_week_after" -> day_end(event_end(ev)) + 7 * Day
      [] OTHER -> NoTime

NoDecision == [done |-> FALSE, act |-> FALSE, reason |-> None, threshold |-> NoTime]
LifecycleDecision(act, reason, threshold) ==
    [done |-> TRUE, act |-> act, reason |-> reason, threshold |-> threshold]

\* should_create_channel(event, stream_exists)
should_create_channel(cfg, ev, now, stream_exists) ==
    IF cfg.create_timing = "stream_available"
    THEN IF stream_exists
         THEN LifecycleDecision(TRUE, "Stream available", NoTime)
         ELSE LifecycleDecision(FALSE, "Waiting for stream", NoTime)
    ELSE LET create_threshold == _calculate_create_threshold(ev, cfg.create_timing)
             delete_threshold == _calculate_delete_threshold(ev, cfg.delete_timing) IN
         IF delete_threshold # NoTime /\ now >= delete_threshold
         THEN LifecycleDecision(FALSE, "Past delete threshold", delete_threshold)
         ELSE IF now >= create_threshold
         THEN LifecycleDecision(TRUE, "Create threshold reached", create_threshold)
         ELSE LifecycleDecision(FALSE, "Before create threshold", create_threshold)

\* should_delete_channel(event, stream_exists)
should_delete_channel(cfg, ev, now, stream_exists) ==
    IF cfg.delete_timing = "stream_removed"
    THEN IF ~stream_exists
         THEN LifecycleDecision(TRUE, "Stream removed", NoTime)
         ELSE LifecycleDecision(FALSE, "Stream still exists", NoTime)
    ELSE LET delete_threshold == _calculate_delete_threshold(ev, cfg.delete_timing) IN
         IF delete_threshold = NoTime
         THEN LifecycleDecision(FALSE, "Could not calculate delete time", NoTime)
         ELSE IF now >= delete_threshold
         THEN LifecycleDecision(TRUE, "Delete threshold reached", delete_threshold)
         ELSE LifecycleDecision(FALSE, "Before delete threshold", delete_threshold)

\* events: an evening game, a game that crosses midnight, a midnight start
EventDay == 8
StartInputs == {EventDay * Day + 20 * Hour, EventDay * Day + 23 * Hour, EventDay * Day}
\* sport durations in hours (settings defaults: 3.0 default, 5.0 mma)
DurationInputs == {3, 5}
\* the clock is read at midnight, at noon and in the last unit of each day
NowInputs == {d * Day + o : d \in 0..MaxDay, o \in {0, 12 * Hour, Day - 1}}

InitTiming ==
    /\ tmCfg \in [create_timing : CreateTimings, delete_timing : DeleteTimings]
    /\ tmEvent \in [start : StartInputs, duration : DurationInputs]
    /\ tmNow = 0
    /\ tmStreamExists \in BOOLEAN
    /\ tmCreate = NoDecision
    /\ tmDelete = NoDecision

\* time passes between two lifecycle evaluations
AdvanceClock(n) ==
    /\ n > tmNow
    /\ tmNow' = n
    /\ tmCreate' = NoDecision
    /\ tmDelete' = NoDecision
    /\ UNCHANGED <<tmCfg, tmEvent, tmStreamExists>>
    /\ UNCHANGED nonTimingVars

\* the matching stream appears in or disappears from the M3U group
StreamChange ==
    /\ tmStreamExists' = ~tmStreamExists
    /\ tmCreate' = NoDecision
    /\ tmDelete' = NoDecision
    /\ UNCHANGED <<tmCfg, tmEvent, tmNow>>
    /\ UNCHANGED nonTimingVars

ShouldCreateChannel ==
    /\ ~tmCreate.done
    /\ tmCreate' = should_create_channel(tmCfg, tmEvent, tmNow, tmStreamExists)
    /\ UNCHANGED <<tmCfg, tmEvent, tmNow, tmStreamExists, tmDelete>>
    /\ UNCHANGED nonTimingVars

ShouldDeleteChannel ==
    /\ ~tmDelete.done
    /\ tmDelete' = should_delete_channel(tmCfg, tmEvent, tmNow, tmStreamExists)
    /\ UNCHANGED <<tmCfg, tmEvent, tmNow, tmStreamExists, tmCreate>>
    /\ UNCHANGED nonTimingVars

\* is_event_final(event): the status states the providers report
StatusStates == {"scheduled", "final"}
is_event_final(state) == state \in {"final", "post", "completed"}

NotCategorized == "not_categorized"
ExcludedReasons == {"EVENT_PAST", "BEFORE_WINDOW", "EVENT_FINAL"}

\* categorize_event_timing(event): an ExcludedReason, or None when eligible
categorize_event_timing(cfg, ev, now, state, include_final_events) ==
    LET delete_threshold == _calculate_delete_threshold(ev, cfg.delete_timing)
        create_threshold == IF cfg.create_timing # "stream_available"
                            THEN _calculate_create_threshold(ev, cfg.create_timing)
                            ELSE NoTime
        \* status check, then the time-based fallback (event end + 2h in the past)
        final == is_event_final(state) \/ now > event_end(ev) + 2 * Hour IN
    IF delete_threshold # NoTime /\ now >= delete_threshold THEN "EVENT_PAST"
    ELSE IF create_threshold # NoTime /\ now < create_threshold THEN "BEFORE_WINDOW"
    ELSE IF final /\ ~include_final_events THEN "EVENT_FINAL"
    ELSE None

InitCategorizeIdle ==
    tmCat = [state |-> "scheduled", include_final_events |-> FALSE, result |-> NotCategorized]

InitCategorizeInputs ==
    tmCat \in [state : StatusStates, include_final_events : BOOLEAN, result : {NotCategorized}]

CategorizeEventTiming ==
    /\ tmCat.result = NotCategorized
    /\ tmCat' = [tmCat EXCEPT !.result =
                    categorize_event_timing(tmCfg, tmEvent, tmNow, tmCat.state,
                                            tmCat.include_final_events)]
    /\ UNCHANGED nonCategorizeVars

(***************************************************************************)
(* consumers/cache/refresh.py, consumers/cache/queries.py,                 *)
(* database/connection.py, api/routes/cache.py                             *)
(***************************************************************************)
MaxAgeDays == 7
Refreshers == (NumProcs + 1)..(NumProcs + NumRefreshers)

LeagueRow(slug, n) == [league_slug |-> slug, provider |-> "espn", team_count |-> n]
TeamRow(name, id, league) ==
    [team_name |-> name, provider |-> "espn", provider_team_id |-> id, league |-> league]
NoData == [leagues |-> <<>>, teams |-> <<>>]
\* what the previous refresh stored
OldData == [leagues |-> <<LeagueRow("nfl", 1)>>, teams |-> <<TeamRow("Chiefs", 1, "nfl")>>]
\* results of discovery merged with the seed: a plain result, and one with a
\* repeated league, a duplicate team and a nameless team
FetchInputs ==
    { [leagues |-> <<LeagueRow("nfl", 2)>>,
       teams |-> <<TeamRow("Chiefs", 1, "nfl"), TeamRow("Bills", 2, "nfl")>>],
      [leagues |-> <<LeagueRow("nfl", 1), LeagueRow("nba", 1), LeagueRow("nfl", 2)>>,
       teams |-> <<TeamRow("Chiefs", 1, "nfl"), TeamRow("KC Chiefs", 1, "nfl"),
                   TeamRow(None, 3, "nba"), TeamRow("Lakers", 3, "nba")>>] }

\* get_db: commit when the body finished, rollback when it raised
get_db_commit_always(committed, working, ok) == working
get_db(committed, working, ok) == IF ok THEN working ELSE committed

\* INSERT OR REPLACE INTO league_cache: a row with the same (league_slug,
\* provider) is replaced
insert_or_replace_league(rows, league) ==
    {x \in rows : ~(x.league_slug = league.league_slug /\ x.provider = league.provider)}
        \cup {league}

TeamKey(team) == <<team.provider, team.provider_team_id, team.league>>

RECURSIVE unique_teams_from(_, _, _)
unique_teams_from(teams, seen, acc) ==
    IF teams = <<>> THEN acc
    ELSE LET team == Head(teams) IN
         IF team.team_name = None \/ TeamKey(team) \in seen
         THEN unique_teams_from(Tail(teams), seen, acc)
         ELSE unique_teams_from(Tail(teams), seen \cup {TeamKey(team)}, Append(acc, team))

\* _save_cache: deduplicate by (provider, provider_team_id, league), skip
\* teams without a name
unique_teams(teams) == unique_teams_from(teams, {}, <<>>)

RECURSIVE saved_leagues(_, _)
saved_leagues(leagues, rows) ==
    IF leagues = <<>> THEN rows
    ELSE saved_leagues(Tail(leagues), insert_or_replace_league(rows, Head(leagues)))

\* the contents of both tables after a complete _save_cache(teams, leagues)
SavedTables(data) ==
    [leagues |-> saved_leagues(data.leagues, {}),
     teams |-> {unique_teams(data.teams)[i] : i \in 1..Len(unique_teams(data.teams))}]

\* TeamLeagueCache.get_cache_stats().is_stale
is_stale(meta, now) ==
    IF meta.last_full_refresh # NoTime
    THEN now - meta.last_full_refresh > MaxAgeDays
    ELSE TRUE

\* TeamLeagueCache.is_cache_empty()
is_cache_empty(teams) == Cardinality(teams) = 0

IdleRefresher ==
    [pc |-> "idle", via |-> None, data |-> NoData, li |-> 0, ti |-> 0,
     wl |-> {}, wt |-> {}, result |-> None]

\* the refreshers that have set refresh_in_progress and not yet cleared it
HoldingFlag == {r \in Refreshers :
    rf[r].pc \in {"fetch", "save", "save_leagues", "save_teams", "aliases",
                  "meta", "clear", "failed", "fail_clear"}}

InitRefresh ==
    /\ cacheMeta = [refresh_in_progress |-> FALSE, last_full_refresh |-> 0,
                    leagues_count |-> Len(OldData.leagues),
                    teams_count |-> Len(OldData.teams), last_error |-> None]
    /\ leagueCache = SavedTables(OldData).leagues
    /\ teamCache = SavedTables(OldData).teams
    /\ rf = [r \in Refreshers |-> IdleRefresher]
    /\ apiRefreshing = FALSE
    /\ today = 0
    /\ refreshes = 0

\* days pass between refreshes
DaysPass(k) ==
    /\ today + k <= MaxToday
    /\ today' = today + k
    /\ UNCHANGED <<cacheMeta, leagueCache, teamCache, rf, apiRefreshing, refreshes>>
    /\ UNCHANGED <<nonRefreshVars, dbWriter>>

\* POST /cache/refresh: is_refresh_in_progress(), start_refresh(), then
\* the refresh thread calls refresh()
TriggerRefresh(r) ==
    /\ rf[r].pc = "idle"
    /\ refreshes < MaxRefreshes
    /\ ~apiRefreshing
    /\ apiRefreshing' = TRUE
    /\ rf' = [rf EXCEPT ![r] = [IdleRefresher EXCEPT !.pc = "start", !.via = "api"]]
    /\ refreshes' = refreshes + 1
    /\ UNCHANGED <<cacheMeta, leagueCache, teamCache, today>>
    /\ UNCHANGED <<nonRefreshVars, dbWriter>>

\* CacheRefresher.refresh_if_needed(): refresh() when stale or empty
RefreshIfNeeded(r) ==
    /\ rf[r].pc = "idle"
    /\ refreshes < MaxRefreshes
    /\ is_stale(cacheMeta, today) \/ is_cache_empty(teamCache)
    /\ rf' = [rf EXCEPT ![r] = [IdleRefresher EXCEPT !.pc = "start", !.via = "direct"]]
    /\ refreshes' = refreshes + 1
    /\ UNCHANGED <<cacheMeta, leagueCache, teamCache, apiRefreshing, today>>
    /\ UNCHANGED <<nonRefreshVars, dbWriter>>

\* refresh(): self._set_refresh_in_progress(True)
SetRefreshInProgress(r) ==
    /\ rf[r].pc = "start"
    /\ dbWriter = 0
    /\ cacheMeta' = [cacheMeta EXCEPT !.refresh_in_progress = TRUE]
    /\ rf' = [rf EXCEPT ![r].pc = "fetch"]
    /\ UNCHANGED <<leagueCache, teamCache, apiRefreshing, today, refreshes>>
    /\ UNCHANGED <<nonRefreshVars, dbWriter>>

\* refresh(): discovery from every provider and the merge with the seed
Fetch(r, data) ==
    /\ rf[r].pc = "fetch"
    /\ rf' = [rf EXCEPT ![r].pc = "save", ![r].data = data]
    /\ UNCHANGED <<cacheMeta, leagueCache, teamCache, apiRefreshing, today, refreshes>>
    /\ UNCHANGED <<nonRefreshVars, dbWriter>>

\* refresh(): num_providers == 0 returns at once
FetchNoProviders(r) ==
    /\ rf[r].pc = "fetch"
    /\ rf' = [rf EXCEPT ![r].pc = "done", ![r].result = "no_providers"]
    /\ UNCHANGED <<cacheMeta, leagueCache, teamCache, apiRefreshing, today, refreshes>>
    /\ UNCHANGED <<nonRefreshVars, dbWriter>>

\* refresh(): an exception while fetching or merging
FetchFail(r) ==
    /\ rf[r].pc = "fetch"
    /\ rf' = [rf EXCEPT ![r].pc = "failed"]
    /\ UNCHANGED <<cacheMeta, leagueCache, teamCache, apiRefreshing, today, refreshes>>
    /\ UNCHANGED <<nonRefreshVars, dbWriter>>

\* _save_cache: the connection is opened and both tables are cleared; the
\* first DELETE takes the write lock
SaveClear(r) ==
    /\ rf[r].pc = "save"
    /\ dbWriter = 0
    /\ dbWriter' = r
    /\ rf' = [rf EXCEPT ![r].pc = "save_leagues", ![r].wl = {}, ![r].wt = {},
                        ![r].li = 0, ![r].ti = 0]
    /\ UNCHANGED <<cacheMeta, leagueCache, teamCache, apiRefreshing, today, refreshes>>
    /\ UNCHANGED nonRefreshVars

\* _save_cache: the write lock is held by another connection until the busy
\* timeout expires (sqlite3.OperationalError)
SaveLockTimeout(r) ==
    /\ rf[r].pc = "save"
    /\ dbWriter # 0
    /\ rf' = [rf EXCEPT ![r].pc = "failed", ![r].result = "save_failed"]
    /\ UNCHANGED <<cacheMeta, leagueCache, teamCache, apiRefreshing, today, refreshes>>
    /\ UNCHANGED <<nonRefreshVars, dbWriter>>

\* _save_cache: INSERT OR REPLACE of the next league
SaveLeague(r) ==
    /\ rf[r].pc = "save_leagues"
    /\ rf[r].li < Len(rf[r].data.leagues)
    /\ rf' = [rf EXCEPT ![r].wl = insert_or_replace_league(@, rf[r].data.leagues[rf[r].li + 1]),
                        ![r].li = @ + 1]
    /\ UNCHANGED <<cacheMeta, leagueCache, teamCache, apiRefreshing, today, refreshes>>
    /\ UNCHANGED <<nonRefreshVars, dbWriter>>

\* _save_cache: the leagues are written, the teams are deduplicated
SaveLeaguesDone(r) ==
    /\ rf[r].pc = "save_leagues"
    /\ rf[r].li = Len(rf[r].data.leagues)
    /\ rf' = [rf EXCEPT ![r].pc = "save_teams"]
    /\ UNCHANGED <<cacheMeta, leagueCache, teamCache, apiRefreshing, today, refreshes>>
    /\ UNCHANGED <<nonRefreshVars, dbWriter>>

\* _save_cache: INSERT of the next unique team
SaveTeam(r) ==
    /\ rf[r].pc = "save_teams"
    /\ rf[r].ti < Len(unique_teams(rf[r].data.teams))
    /\ rf' = [rf EXCEPT ![r].wt = @ \cup {unique_teams(rf[r].data.teams)[rf[r].ti + 1]},
                        ![r].ti = @ + 1]
    /\ UNCHANGED <<cacheMeta, leagueCache, teamCache, apiRefreshing, today, refreshes>>
    /\ UNCHANGED <<nonRefreshVars, dbWriter>>

\* _save_cache: the body of "with self._db() as conn" ends; get_db commits
SaveCommit(r) ==
    /\ rf[r].pc = "save_teams"
    /\ rf[r].ti = Len(unique_teams(rf[r].data.teams))
    /\ leagueCache' = get_db(leagueCache, rf[r].wl, TRUE)
    /\ teamCache' = get_db(teamCache, rf[r].wt, TRUE)
    /\ dbWriter' = 0
    /\ rf' = [rf EXCEPT ![r].pc = "aliases", ![r].wl = {}, ![r].wt = {},
                        ![r].li = 0, ![r].ti = 0]
    /\ UNCHANGED <<cacheMeta, apiRefreshing, today, refreshes>>
    /\ UNCHANGED nonRefreshVars

\* _save_cache: a statement raises after the tables were cleared; get_db
\* rolls back and re-raises
SaveFail(r) ==
    /\ rf[r].pc \in {"save_leagues", "save_teams"}
    /\ leagueCache' = get_db(leagueCache, rf[r].wl, FALSE)
    /\ teamCache' = get_db(teamCache, rf[r].wt, FALSE)
    /\ dbWriter' = 0
    /\ rf' = [rf EXCEPT ![r].pc = "failed", ![r].result = "save_failed"]
    /\ UNCHANGED <<cacheMeta, apiRefreshing, today, refreshes>>
    /\ UNCHANGED nonRefreshVars

\* refresh(): self._apply_default_aliases() (writes the leagues table only)
ApplyDefaultAliases(r, ok) ==
    /\ rf[r].pc = "aliases"
    /\ dbWriter = 0
    /\ rf' = [rf EXCEPT ![r].pc = IF ok THEN "meta" ELSE "failed"]
    /\ UNCHANGED <<cacheMeta, leagueCache, teamCache, apiRefreshing, today, refreshes>>
    /\ UNCHANGED <<nonRefreshVars, dbWriter>>

\* _update_meta(leagues_count, teams_count, duration, error)
_update_meta(meta, now, leagues_count, teams_count, error) ==
    [meta EXCEPT !.last_full_refresh = now, !.leagues_count = leagues_count,
                 !.teams_count = teams_count, !.last_error = error]

\* refresh(): self._update_meta(len(all_leagues), len(all_teams), duration, None)
UpdateMeta(r) ==
    /\ rf[r].pc = "meta"
    /\ dbWriter = 0
    /\ cacheMeta' = _update_meta(cacheMeta, today, Len(rf[r].data.leagues),
                                 Len(rf[r].data.teams), None)
    /\ rf' = [rf EXCEPT ![r].pc = "clear"]
    /\ UNCHANGED <<leagueCache, teamCache, apiRefreshing, today, refreshes>>
    /\ UNCHANGED <<nonRefreshVars, dbWriter>>

\* refresh(): self._set_refresh_in_progress(False) on the success path
ClearRefreshInProgress(r) ==
    /\ rf[r].pc = "clear"
    /\ dbWriter = 0
    /\ cacheMeta' = [cacheMeta EXCEPT !.refresh_in_progress = FALSE]
    /\ rf' = [rf EXCEPT ![r].pc = "done", ![r].result = "success"]
    /\ UNCHANGED <<leagueCache, teamCache, apiRefreshing, today, refreshes>>
    /\ UNCHANGED <<nonRefreshVars, dbWriter>>

\* refresh(): except Exception: self._update_meta(0, 0, duration, str(e))
FailUpdateMeta(r) ==
    /\ rf[r].pc = "failed"
    /\ dbWriter = 0
    /\ cacheMeta' = _update_meta(cacheMeta, today, 0, 0, "error")
    /\ rf' = [rf EXCEPT ![r].pc = "fail_clear", ![r].data = NoData,
                        ![r].wl = {}, ![r].wt = {}, ![r].li = 0, ![r].ti = 0]
    /\ UNCHANGED <<leagueCache, teamCache, apiRefreshing, today, refreshes>>
    /\ UNCHANGED <<nonRefreshVars, dbWriter>>

\* refresh(): except Exception: self._set_refresh_in_progress(False)
FailClearRefreshInProgress(r) ==
    /\ rf[r].pc = "fail_clear"
    /\ dbWriter = 0
    /\ cacheMeta' = [cacheMeta EXCEPT !.refresh_in_progress = FALSE]
    /\ rf' = [rf EXCEPT ![r].pc = "done",
                        ![r].result = IF @ = None THEN "failed" ELSE @]
    /\ UNCHANGED <<leagueCache, teamCache, apiRefreshing, today, refreshes>>
    /\ UNCHANGED <<nonRefreshVars, dbWriter>>

\* refresh() returns; the API thread then calls complete_refresh or
\* fail_refresh
RefreshReturn(r) ==
    /\ rf[r].pc = "done"
    /\ rf' = [rf EXCEPT ![r] = IdleRefresher]
    /\ apiRefreshing' = IF rf[r].via = "api" THEN FALSE ELSE apiRefreshing
    /\ UNCHANGED <<cacheMeta, leagueCache, teamCache, today, refreshes>>
    /\ UNCHANGED <<nonRefreshVars, dbWriter>>

(***************************************************************************)
(* consumers/matching/event_matcher.py                                     *)
(* Text is a sequence of one-character strings, so that lower(), split(),  *)
(* substring tests and the regular expressions are computed.               *)
(***************************************************************************)
UpperChars == <<"A", "B", "C", "D", "E", "F", "G", "H", "I", "J", "K", "L", "M", "N", "O", "P", "Q", "R", "S", "T", "U", "V", "W", "X", "Y", "Z">>
LowerChars == <<"a", "b", "c", "d", "e", "f", "g", "h", "i", "j", "k", "l", "m", "n", "o", "p", "q", "r", "s", "t", "u", "v", "w", "x", "y", "z">>
DigitChars == {"0", "1", "2", "3", "4", "5", "6", "7", "8", "9"}

PosIn(chars, c) == CHOOSE i \in 1..Len(chars) : chars[i] = c
IsUpper(c) == \E i \in 1..Len(UpperChars) : UpperChars[i] = c
IsLower(c) == \E i \in 1..Len(LowerChars) : LowerChars[i] = c
\* str.lower(), str.upper()
str_lower(s) == [i \in 1..Len(s) |-> IF IsUpper(s[i]) THEN LowerChars[PosIn(UpperChars, s[i])] ELSE s[i]]
str_upper(s) == [i \in 1..Len(s) |-> IF IsLower(s[i]) THEN UpperChars[PosIn(LowerChars, s[i])] ELSE s[i]]

IsSpace(c) == c = " "
\* \w of the re module
IsWordChar(c) == IsUpper(c) \/ IsLower(c) \/ c \in DigitChars \/ c = "_"

\* sub in s
Contains(sub, s) ==
    \E i \in 1..(Len(s) - Len(sub) + 1) : SubSeq(s, i, i + Len(sub) - 1) = sub

RECURSIVE rstrip(_)
rstrip(s) == IF s = <<>> \/ ~IsSpace(s[Len(s)]) THEN s ELSE rstrip(SubSeq(s, 1, Len(s) - 1))

\* name.split()[-1], the empty text when split() is empty
last_word(s) ==
    LET t == rstrip(s) IN
    IF t = <<>> THEN <<>>
    ELSE LET starts == {i \in 1..Len(t) : \A j \in i..Len(t) : ~IsSpace(t[j])} IN
         SubSeq(t, CHOOSE i \in starts : \A k \in starts : i <= k, Len(t))

\* \b between s[i-1] and s[i]
WordBoundary(s, i) ==
    (i > 1 /\ IsWordChar(s[i - 1])) # (i <= Len(s) /\ IsWordChar(s[i]))

\* re.compile(r"\b" + re.escape(pat) + r"\b", re.IGNORECASE).search(s)
SearchWord(pat, s) ==
    \E i \in 1..(Len(s) - Len(pat) + 1) :
        /\ str_lower(SubSeq(s, i, i + Len(pat) - 1)) = str_lower(pat)
        /\ WordBoundary(s, i)
        /\ WordBoundary(s, i + Len(pat))

\* the literal lit (lower case) at s[i..], ignoring case
LitAt(s, i, lit) ==
    /\ i + Len(lit) - 1 <= Len(s)
    /\ str_lower(SubSeq(s, i, i + Len(lit) - 1)) = lit

\* \s* from i: the first index that is not white space
RECURSIVE SkipSpaces(_, _)
SkipSpaces(s, i) == IF i <= Len(s) /\ IsSpace(s[i]) THEN SkipSpaces(s, i + 1) ELSE i

\* \d+ from i: the index of the last digit, 0 when there is none
RECURSIVE DigitsFrom(_, _)
DigitsFrom(s, i) ==
    IF i <= Len(s) /\ s[i] \in DigitChars
    THEN IF i + 1 <= Len(s) /\ s[i + 1] \in DigitChars THEN DigitsFrom(s, i + 1) ELSE i
    ELSE 0

\* ufc\s*(?:fn|fight\s*night)?\s*\d+ anchored at i: index of its end, 0 if no match
UfcEnd(s, i) ==
    IF ~LitAt(s, i, <<"u", "f", "c">>) THEN 0
    ELSE LET j == SkipSpaces(s, i + 3)
             k == IF LitAt(s, j, <<"f", "n">>) THEN j + 2
                  ELSE IF LitAt(s, j, <<"f", "i", "g", "h", "t">>)
                          /\ LitAt(s, SkipSpaces(s, j + 5), <<"n", "i", "g", "h", "t">>)
                       THEN SkipSpaces(s, j + 5) + 5
                       ELSE 0
             withOpt == IF k = 0 THEN 0 ELSE DigitsFrom(s, SkipSpaces(s, k))
         IN IF withOpt # 0 THEN withOpt ELSE DigitsFrom(s, j)

\* (?:pfl|bellator|one\s*fc)\s*\d+ anchored at i
OtherEnd(s, i) ==
    LET k == IF LitAt(s, i, <<"p", "f", "l">>) THEN i + 3
             ELSE IF LitAt(s, i, <<"b", "e", "l", "l", "a", "t", "o", "r">>) THEN i + 8
             ELSE IF LitAt(s, i, <<"o", "n", "e">>) /\ LitAt(s, SkipSpaces(s, i + 3), <<"f", "c">>)
                  THEN SkipSpaces(s, i + 3) + 2
                  ELSE 0
    IN IF k = 0 THEN 0 ELSE DigitsFrom(s, SkipSpaces(s, k))

\* str.replace("  ", " ")
RECURSIVE replace_double_space(_)
replace_double_space(s) ==
    IF Len(s) >= 2 /\ s[1] = " " /\ s[2] = " "
    THEN <<" ">> \o replace_double_space(SubSeq(s, 3, Len(s)))
    ELSE IF s = <<>> THEN <<>>
    ELSE <<s[1]>> \o replace_double_space(Tail(s))

\* _extract_event_number(hint); the empty text stands for None
_extract_event_number(hint) ==
    LET ufc == {i \in 1..Len(hint) : UfcEnd(hint, i) # 0}
        other == {i \in 1..Len(hint) : OtherEnd(hint, i) # 0}
        first(S) == CHOOSE i \in S : \A k \in S : i <= k
    IN IF ufc # {}
       THEN replace_double_space(str_upper(SubSeq(hint, first(ufc), UfcEnd(hint, first(ufc)))))
       ELSE IF other # {}
       THEN str_upper(SubSeq(hint, first(other), OtherEnd(hint, first(other))))
       ELSE <<>>

\* provider events of the league: start_time in hours UTC, fighters as teams
NoCard == [id |-> None, name |-> <<>>, home |-> <<>>, away |-> <<>>, start |-> 0]
Card325 ==
    [id |-> "600", name |-> <<"U", "F", "C", " ", "3", "2", "5", ":", " ", "V", "o", "l", "k", "a", "n", "o", "v", "s", "k", "i", " ", "v", "s", ".", " ", "L", "o", "p", "e", "s">>,
     home |-> <<"A", "l", "e", "x", "a", "n", "d", "e", "r", " ", "V", "o", "l", "k", "a", "n", "o", "v", "s", "k", "i">>,
     away |-> <<"D", "i", "e", "g", "o", " ", "L", "o", "p", "e", "s">>, start |-> 1 * HoursPerDay + 3]
CardFightNight ==
    [id |-> "601", name |-> <<"U", "F", "C", " ", "F", "i", "g", "h", "t", " ", "N", "i", "g", "h", "t", ":", " ", "H", "o", "l", "l", "o", "w", "a", "y", " ", "v", "s", ".", " ", "P", "o", "i", "r", "i", "e", "r">>,
     home |-> <<"M", "a", "x", " ", "H", "o", "l", "l", "o", "w", "a", "y">>,
     away |-> <<"D", "u", "s", "t", "i", "n", " ", "P", "o", "i", "r", "i", "e", "r">>, start |-> 1 * HoursPerDay + 23]
\* results of SportsDataService.get_events(league, target_date)
EventLists == {<<>>, <<Card325>>, <<CardFightNight, Card325>>}
TargetDates == {0, 1}
\* user_tz as an offset from UTC in hours
UserTzs == {0, 0 - 5}
MatchGroups == {1}

\* classified streams: original name, category and event_hint of the classifier
MatchStreams ==
    << [name |-> <<"U", "F", "C", " ", "3", "2", "5", ":", " ", "M", "a", "i", "n", " ", "C", "a", "r", "d">>, category |-> "EVENT_CARD",
        event_hint |-> <<"U", "F", "C", " ", "3", "2", "5">>],
       [name |-> <<"U", "F", "C", " ", "3", "2", " ", "P", "r", "e", "l", "i", "m", "s">>, category |-> "EVENT_CARD",
        event_hint |-> <<"u", "f", "c", " ", "3", "2">>],
       [name |-> <<"V", "o", "l", "k", "a", "n", "o", "v", "s", "k", "i", " ", "v", "s", " ", "L", "o", "p", "e", "s">>, category |-> "EVENT_CARD",
        event_hint |-> <<>>],
       [name |-> <<"U", "F", "C", " ", "4", "0", "0", " ", "H", "o", "l", "l", "o", "w", "a", "y", " ", "L", "i", "v", "e">>, category |-> "EVENT_CARD",
        event_hint |-> <<"U", "F", "C", " ", " ", "4", "0", "0">>],
       [name |-> <<"N", "B", "A", ":", " ", "L", "a", "k", "e", "r", "s", " ", "v", "s", " ", "C", "e", "l", "t", "i", "c", "s">>, category |-> "TEAM_VS_TEAM",
        event_hint |-> <<>>],
       [name |-> <<"U", "F", "C", " ", "C", "o", "u", "n", "t", "d", "o", "w", "n">>, category |-> "EVENT_CARD",
        event_hint |-> <<>>] >>
MatchStreamIds == 1..Len(MatchStreams)
CacheKeys == MatchGroups \X MatchStreamIds

\* event.start_time.astimezone(user_tz).date()
local_date(start, user_tz) == (start + user_tz) \div HoursPerDay

\* StreamMatchCache entries; event_to_cache_data keeps the event, a snapshot
\* that can no longer be read has ok = FALSE
NoSnapshot == [ok |-> FALSE, event |-> NoCard]
NoEntry == [event_id |-> None, league |-> None, cached_data |-> NoSnapshot,
            generation |-> 0, match_method |-> None]
event_to_cache_data(event) == [ok |-> TRUE, event |-> event]
\* TeamMatcher._reconstruct_event(cached_data); NoCard stands for None
_reconstruct_event(cached_data) == IF cached_data.ok THEN cached_data.event ELSE NoCard

cache_get(cache, key) == cache[key]
cache_touch(cache, key, generation) ==
    IF cache[key] = NoEntry THEN cache
    ELSE [cache EXCEPT ![key].generation = generation]
cache_delete(cache, key) == [cache EXCEPT ![key] = NoEntry]
cache_set(cache, key, event_id, league, cached_data, generation, match_method) ==
    [cache EXCEPT ![key] = [event_id |-> event_id, league |-> league,
                            cached_data |-> cached_data, generation |-> generation,
                            match_method |-> match_method]]

\* MatchOutcome.matched / .failed / .filtered
Matched(method, event, league, origin) ==
    [kind |-> "matched", method |-> method, event |-> event, league |-> league,
     origin |-> origin, reason |-> None, detail |-> None]
Failed(reason, detail) ==
    [kind |-> "failed", method |-> None, event |-> NoCard, league |-> None,
     origin |-> None, reason |-> reason, detail |-> detail]
Filtered(reason) ==
    [kind |-> "filtered", method |-> None, event |-> NoCard, league |-> None,
     origin |-> None, reason |-> reason, detail |-> "Not an event card stream"]
NoOutcome ==
    [kind |-> None, method |-> None, event |-> NoCard, league |-> None,
     origin |-> None, reason |-> None, detail |-> None]

_check_cache_resetting_method(cache, ctx) ==
    LET key == <<ctx.group_id, ctx.stream_id>>
        entry == cache_get(cache, key) IN
    IF entry = NoEntry THEN [result |-> NoOutcome, cache |-> cache]
    ELSE LET touched == [cache_touch(cache, key, ctx.generation)
                            EXCEPT ![key].match_method = "cache"]
             event == _reconstruct_event(entry.cached_data) IN
         IF event = NoCard
         THEN [result |-> NoOutcome, cache |-> cache_delete(touched, key)]
         ELSE IF local_date(event.start, ctx.user_tz) # ctx.target_date
         THEN [result |-> NoOutcome, cache |-> touched]
         ELSE [result |-> Matched("cache", event, entry.league, entry.match_method),
               cache |-> touched]

_check_cache_ignoring_date(cache, ctx) ==
    LET key == <<ctx.group_id, ctx.stream_id>>
        entry == cache_get(cache, key) IN
    IF entry = NoEntry THEN [result |-> NoOutcome, cache |-> cache]
    ELSE LET touched == cache_touch(cache, key, ctx.generation)
             event == _reconstruct_event(entry.cached_data) IN
         IF event = NoCard
         THEN [result |-> NoOutcome, cache |-> cache_delete(touched, key)]
         ELSE [result |-> Matched("cache", event, entry.league, entry.match_method),
               cache |-> touched]

\* _check_cache(ctx): the outcome (NoOutcome for None) and the cache afterwards
_check_cache(cache, ctx) ==
    LET key == <<ctx.group_id, ctx.stream_id>>
        entry == cache_get(cache, key) IN
    IF entry = NoEntry THEN [result |-> NoOutcome, cache |-> cache]
    ELSE LET touched == cache_touch(cache, key, ctx.generation)
             event == _reconstruct_event(entry.cached_data) IN
         IF event = NoCard
         THEN [result |-> NoOutcome, cache |-> cache_delete(touched, key)]
         ELSE IF local_date(event.start, ctx.user_tz) # ctx.target_date
         THEN [result |-> NoOutcome, cache |-> touched]
         ELSE [result |-> Matched("cache", event, entry.league, entry.match_method),
               cache |-> touched]

\* strategy 1 of _match_to_event_card: the events whose name holds the number
NumberMatches(events, event_num) ==
    {i \in 1..Len(events) : SearchWord(event_num, events[i].name)}

\* strategy 2: (event index, fighter index) pairs whose surname is in the stream
SurnameMatches(events, stream_lower) ==
    {<<i, j>> \in (1..Len(events)) \X {1, 2} :
        LET name == IF j = 1 THEN events[i].home ELSE events[i].away
            last_name == last_word(str_lower(name)) IN
        Len(last_name) >= 4 /\ Contains(last_name, stream_lower)}

\* _match_to_event_card(ctx, events, league); of ctx it reads the stream name
\* and the classifier's event_hint
_match_to_event_card(classified, events, league) ==
    LET stream_lower == str_lower(classified.name)
        event_num == _extract_event_number(classified.event_hint)
        byNumber == IF classified.event_hint # <<>> /\ event_num # <<>>
                    THEN NumberMatches(events, event_num) ELSE {}
        bySurname == SurnameMatches(events, stream_lower)
        firstIdx(S) == CHOOSE i \in S : \A k \in S : i <= k
        firstPair(S) == CHOOSE x \in S : \A y \in S :
                            x[1] < y[1] \/ (x[1] = y[1] /\ x[2] <= y[2])
    IN IF byNumber # {}
       THEN Matched("keyword", events[firstIdx(byNumber)], league, None)
       ELSE IF bySurname # {}
       THEN Matched("fuzzy", events[firstPair(bySurname)[1]], league, None)
       ELSE Failed("NO_EVENT_CARD_MATCH", "Could not match to any event")

\* _cache_result(ctx, result)
_cache_result(cache, ctx, result) ==
    IF result.event = NoCard THEN cache
    ELSE cache_set(cache, <<ctx.group_id, ctx.stream_id>>, result.event.id,
                   result.league, event_to_cache_data(result.event),
                   ctx.generation, result.method)

\* the events of the list that fall on the target date in the user's timezone
RECURSIVE date_events(_, _, _)
date_events(events, user_tz, target_date) ==
    IF events = <<>> THEN <<>>
    ELSE (IF local_date(Head(events).start, user_tz) = target_date
          THEN <<Head(events)>> ELSE <<>>)
         \o date_events(Tail(events), user_tz, target_date)

\* every event list that can remain after the date filter
DateEventLists ==
    {date_events(events, user_tz, target_date) :
        events \in EventLists, user_tz \in UserTzs, target_date \in TargetDates}

\* the outcomes of _match_to_event_card for the streams and event lists above
EventCardMatches ==
    [stream_id \in MatchStreamIds |->
        [events \in DateEventLists \ {<<>>} |->
            _match_to_event_card(MatchStreams[stream_id], events, "ufc")]]

match_pinning_misses(cache, ctx, league, events) ==
    IF ctx.classified.category # "EVENT_CARD"
    THEN [result |-> Filtered("NOT_EVENT"), cache |-> cache]
    ELSE LET checked == _check_cache(cache, ctx) IN
         IF checked.result # NoOutcome THEN checked
         ELSE LET dated == date_events(events, ctx.user_tz, ctx.target_date)
                  result == IF dated = <<>>
                            THEN Failed("NO_EVENT_CARD_MATCH", "No events on target date")
                            ELSE EventCardMatches[ctx.stream_id][dated]
              IN [result |-> result,
                  cache |-> cache_set(checked.cache, <<ctx.group_id, ctx.stream_id>>,
                                      result.event.id, league,
                                      event_to_cache_data(result.event),
                                      ctx.generation, result.method)]

\* EventCardMatcher.match: the outcome and the cache afterwards
match(cache, ctx, league, events) ==
    IF ctx.classified.category # "EVENT_CARD"
    THEN [result |-> Filtered("NOT_EVENT"), cache |-> cache]
    ELSE LET checked == _check_cache(cache, ctx) IN
         IF checked.result # NoOutcome THEN checked
         ELSE IF events = <<>>
         THEN [result |-> Failed("NO_EVENT_CARD_MATCH", "No events for target date"),
               cache |-> checked.cache]
         ELSE IF date_events(events, ctx.user_tz, ctx.target_date) = <<>>
         THEN [result |-> Failed("NO_EVENT_CARD_MATCH", "No events on target date"),
               cache |-> checked.cache]
         ELSE LET result == EventCardMatches[ctx.stream_id][
                                date_events(events, ctx.user_tz, ctx.target_date)]
              IN IF result.kind = "matched" /\ result.event # NoCard
                 THEN [result |-> result, cache |-> _cache_result(checked.cache, ctx, result)]
                 ELSE [result |-> result, cache |-> checked.cache]

NoMatchCall == [stream_id |-> 0, group_id |-> 0, outcome |-> NoOutcome]

InitMatch ==
    /\ fpCache = [k \in CacheKeys |-> NoEntry]
    /\ fpGeneration = 1
    /\ matchLast = NoMatchCall

\* one call of EventCardMatcher.match for a stream of a group
Match(group_id, stream_id, target_date, user_tz, events) ==
    LET ctx == [stream_id |-> stream_id, group_id |-> group_id,
                target_date |-> target_date, generation |-> fpGeneration,
                user_tz |-> user_tz, classified |-> MatchStreams[stream_id]]
        out == match(fpCache, ctx, "ufc", events) IN
    /\ fpCache' = out.cache
    /\ matchLast' = [stream_id |-> stream_id, group_id |-> group_id,
                     outcome |-> out.result]
    /\ UNCHANGED fpGeneration
    /\ UNCHANGED nonMatchVars

\* the orchestrator starts the next run
NextGeneration ==
    /\ fpGeneration < MaxGeneration
    /\ fpGeneration' = fpGeneration + 1
    /\ UNCHANGED <<fpCache, matchLast>>
    /\ UNCHANGED nonMatchVars

\* a stored snapshot can no longer be reconstructed
SnapshotUnreadable(key) ==
    /\ fpCache[key] # NoEntry
    /\ fpCache[key].cached_data.ok
    /\ fpCache' = [fpCache EXCEPT ![key].cached_data.ok = FALSE]
    /\ UNCHANGED <<fpGeneration, matchLast>>
    /\ UNCHANGED nonMatchVars

(***************************************************************************)
(* database/channel_numbers.py, database/settings/update.py                *)
(***************************************************************************)
MAX_CHANNEL == 9999
DefaultRangeStart == 101

Conns == 1..NumConns
NumberedGroups == {1, 2, 3}

\* "not x" for an int | None
Falsy(x) == x \in {NoInt, 0}

GroupRow(start, mode, sort_order, count) ==
    [channel_start_number |-> start, channel_assignment_mode |-> mode,
     sort_order |-> sort_order, total_stream_count |-> count,
     enabled |-> TRUE, parent_group_id |-> NoInt]

\* the event_epg_groups tables the numbering runs against
GroupTables ==
    {[g \in {1, 2} |-> IF g = 1 THEN GroupRow(101, "manual", 1, 0)
                                 ELSE GroupRow(NoInt, "", 2, 0)],
     [g \in {1, 2} |-> IF g = 1 THEN GroupRow(NoInt, "auto", 1, 12)
                                 ELSE GroupRow(NoInt, "auto", 2, 0)],
     [g \in {1, 2} |-> IF g = 1 THEN GroupRow(9999, "manual", 1, 0)
                                 ELSE GroupRow(NoInt, "auto", 2, 0)]}

\* tables of AUTO groups: in id order; in another order than the ids; with a
\* disabled group and a child group between two enabled parent groups
AutoTables ==
    {<<GroupRow(NoInt, "auto", 1, 12), GroupRow(NoInt, "auto", 2, 0),
       GroupRow(NoInt, "auto", 3, 0)>>,
     <<GroupRow(NoInt, "auto", 3, 0), GroupRow(NoInt, "auto", 1, 25),
       GroupRow(NoInt, "auto", 2, 10)>>,
     <<GroupRow(NoInt, "auto", 1, 0),
       [GroupRow(NoInt, "auto", 2, 30) EXCEPT !.enabled = FALSE],
       GroupRow(NoInt, "auto", 3, 0)>>,
     <<GroupRow(NoInt, "auto", 1, 0),
       [GroupRow(NoInt, "auto", 2, 30) EXCEPT !.parent_group_id = 1],
       GroupRow(NoInt, "auto", 3, 0)>>}

\* a MANUAL group next to an AUTO group: the MANUAL group's start set by the
\* user, or left to be auto-assigned
MixedTables ==
    {[g \in {1, 2} |-> IF g = 1 THEN GroupRow(101, "manual", 1, 0)
                                 ELSE GroupRow(NoInt, "auto", 2, 0)],
     [g \in {1, 2} |-> IF g = 1 THEN GroupRow(NoInt, "manual", 1, 0)
                                 ELSE GroupRow(NoInt, "auto", 2, 0)]}

\* settings.channel_range_start / channel_range_end (NULL = no limit)
RangeSettings ==
    {[channel_range_start |-> 101, channel_range_end |-> NoInt],
     [channel_range_start |-> 101, channel_range_end |-> 102],
     [channel_range_start |-> 111, channel_range_end |-> 130]}

get_global_channel_range(db) ==
    <<IF Falsy(db.settings.channel_range_start) THEN DefaultRangeStart
      ELSE db.settings.channel_range_start,
      db.settings.channel_range_end>>

\* effective_end = range_end if range_end else MAX_CHANNEL
effective_end(db) ==
    LET range_end == get_global_channel_range(db)[2] IN
    IF Falsy(range_end) THEN MAX_CHANNEL ELSE range_end

\* channel numbers of the group's channels WHERE deleted_at IS NULL
ActiveNumbers(db, group_id) ==
    {db.channels[i].channel_number :
        i \in {j \in DOMAIN db.channels : /\ db.channels[j].event_epg_group_id = group_id
                                          /\ ~db.channels[j].deleted}}

_get_total_stream_count(db, group_id) ==
    IF Falsy(db.groups[group_id].total_stream_count) THEN 0
    ELSE db.groups[group_id].total_stream_count

_calculate_blocks_needed_floor(stream_count) ==
    IF stream_count = 0 THEN 1 ELSE stream_count \div 10

_calculate_blocks_needed(stream_count) ==
    IF stream_count = 0 THEN 1 ELSE (stream_count + 9) \div 10

_get_min_channel_number(db, group_id) ==
    LET nums == ActiveNumbers(db, group_id) \ {NoInt, 0} IN
    IF nums = {} THEN NoInt ELSE CHOOSE n \in nums : \A m \in nums : n <= m

RECURSIVE SortedBySortOrder(_, _)
SortedBySortOrder(groups, ids) ==
    IF ids = {} THEN <<>>
    ELSE LET first == CHOOSE g \in ids : \A h \in ids :
                         \/ groups[g].sort_order < groups[h].sort_order
                         \/ groups[g].sort_order = groups[h].sort_order /\ g <= h IN
         <<first>> \o SortedBySortOrder(groups, ids \ {first})

\* the enabled AUTO groups that are no child groups, ORDER BY sort_order
auto_groups(db) ==
    SortedBySortOrder(db.groups,
        {g \in DOMAIN db.groups : /\ db.groups[g].channel_assignment_mode = "auto"
                                  /\ db.groups[g].parent_group_id = NoInt
                                  /\ db.groups[g].enabled})

RECURSIVE AutoStartFrom(_, _, _, _)
AutoStartFrom(db, group_id, rest, current_start) ==
    IF rest = <<>> THEN NoInt
    ELSE IF Head(rest) = group_id
    THEN LET min_existing == _get_min_channel_number(db, group_id)
             start == IF ~Falsy(min_existing) /\ min_existing < current_start
                      THEN min_existing ELSE current_start IN
         IF start > effective_end(db) THEN NoInt ELSE start
    ELSE AutoStartFrom(db, group_id, Tail(rest),
            current_start
              + _calculate_blocks_needed(_get_total_stream_count(db, Head(rest))) * 10)

_calculate_auto_channel_start(db, group_id) ==
    AutoStartFrom(db, group_id, auto_groups(db), get_global_channel_range(db)[1])

_calculate_auto_block_end_unbounded(db, group_id, channel_start) == effective_end(db)

_calculate_auto_block_end(db, group_id, channel_start) ==
    LET seq == auto_groups(db)
        after == {i \in DOMAIN seq : /\ \E k \in 1..(i - 1) : seq[k] = group_id
                                     /\ ~Falsy(_get_min_channel_number(db, seq[i]))} IN
    IF after = {} THEN effective_end(db)
    ELSE _get_min_channel_number(db, seq[CHOOSE i \in after : \A j \in after : i <= j]) - 1

_get_next_available_range_start(db) ==
    LET range_start == get_global_channel_range(db)[1]
        reserved == {g \in DOMAIN db.groups : /\ db.groups[g].enabled
                                              /\ db.groups[g].channel_start_number # NoInt}
        reserved_end(g) == db.groups[g].channel_start_number
                             + (IF Falsy(db.groups[g].total_stream_count) THEN 10
                                ELSE db.groups[g].total_stream_count) - 1
        highest_used == SetMax({range_start - 1} \cup {reserved_end(g) : g \in reserved})
        next_ten == ((highest_used \div 10) + 1) * 10 + 1
        boundary == ((range_start - 1) \div 10) * 10 + 1
        adjusted == IF next_ten < range_start
                    THEN (IF boundary < range_start THEN boundary + 10 ELSE boundary)
                    ELSE next_ten IN
    IF adjusted > effective_end(db) THEN NoInt ELSE adjusted

\* next_num = channel_start; while next_num in used_set: next_num += 1
FirstUnused(channel_start, used_set) ==
    CHOOSE n \in channel_start..(channel_start + Cardinality(used_set)) :
        /\ n \notin used_set
        /\ \A m \in channel_start..(n - 1) : m \in used_set

\* returns the number (NoInt for None) and the event_epg_groups table, whose
\* channel_start_number the call may have auto-assigned and committed
get_next_channel_number(db, group_id, auto_assign) ==
    LET group == db.groups[group_id]
        assignment_mode == IF group.channel_assignment_mode = "" THEN "manual"
                           ELSE group.channel_assignment_mode
        auto_start == _calculate_auto_channel_start(db, group_id)
        assigns == /\ assignment_mode # "auto"
                   /\ Falsy(group.channel_start_number)
                   /\ auto_assign
        assigned == _get_next_available_range_start(db)
        channel_start == IF assignment_mode = "auto" THEN auto_start
                         ELSE IF assigns THEN assigned
                         ELSE group.channel_start_number
        block_end == IF assignment_mode = "auto" /\ ~Falsy(auto_start)
                     THEN _calculate_auto_block_end(db, group_id, auto_start)
                     ELSE NoInt
        groups == IF assigns /\ ~Falsy(assigned)
                  THEN [db.groups EXCEPT ![group_id].channel_start_number = assigned]
                  ELSE db.groups
        next_num == FirstUnused(channel_start, ActiveNumbers(db, group_id)) IN
    IF group_id \notin DOMAIN db.groups THEN [ret |-> NoInt, groups |-> db.groups]
    ELSE IF Falsy(channel_start) THEN [ret |-> NoInt, groups |-> groups]
    ELSE IF ~Falsy(block_end) /\ next_num > block_end THEN [ret |-> NoInt, groups |-> groups]
    ELSE IF next_num > MAX_CHANNEL THEN [ret |-> NoInt, groups |-> groups]
    ELSE [ret |-> next_num, groups |-> groups]

get_group_channel_range(db, group_id) ==
    LET group == db.groups[group_id]
        assignment_mode == IF group.channel_assignment_mode = "" THEN "manual"
                           ELSE group.channel_assignment_mode
        stream_count == IF Falsy(group.total_stream_count) THEN 0 ELSE group.total_stream_count
        auto_start == _calculate_auto_channel_start(db, group_id)
        blocks_needed == IF stream_count > 0 THEN (stream_count + 9) \div 10 ELSE 1 IN
    IF group_id \notin DOMAIN db.groups THEN <<NoInt, NoInt>>
    ELSE IF assignment_mode = "auto"
    THEN IF Falsy(auto_start) THEN <<NoInt, NoInt>>
         ELSE <<auto_start, auto_start + (blocks_needed * 10) - 1>>
    ELSE IF Falsy(group.channel_start_number) THEN <<NoInt, NoInt>>
         ELSE <<group.channel_start_number,
                group.channel_start_number + SetMax({stream_count, 10}) - 1>>

validate_channel_in_range(db, group_id, channel_number) ==
    LET range == get_group_channel_range(db, group_id) IN
    IF range[1] = NoInt THEN FALSE
    ELSE IF channel_number < range[1] THEN FALSE
    ELSE IF ~Falsy(range[2]) /\ channel_number > range[2] THEN FALSE
    ELSE TRUE

\* the database as one connection reads it
Db == [settings |-> settingsRow, groups |-> epgGroups, channels |-> numChannels]

IdleConn == [pc |-> "idle", group_id |-> 0, channel_id |-> 0, new_number |-> NoInt]
NoNumberCall == [group_id |-> 0, ret |-> NoInt, range_start |-> 0, range_end |-> 0]

InitNumbers ==
    /\ settingsRow \in RangeSettings
    /\ epgGroups \in GroupTables
    /\ numChannels = <<>>
    /\ numConn = [c \in Conns |-> IdleConn]
    /\ numLast = NoNumberCall

\* the numbering of a table of AUTO groups
InitAutoNumbers ==
    /\ settingsRow \in RangeSettings
    /\ epgGroups \in AutoTables
    /\ numChannels = <<>>
    /\ numConn = [c \in Conns |-> IdleConn]
    /\ numLast = NoNumberCall

\* the numbering of a MANUAL and an AUTO group
InitMixedNumbers ==
    /\ settingsRow \in RangeSettings
    /\ epgGroups \in MixedTables
    /\ numChannels = <<>>
    /\ numConn = [c \in Conns |-> IdleConn]
    /\ numLast = NoNumberCall

\* the numbering at rest, for the specifications of other subsystems
InitNumbersIdle ==
    /\ settingsRow = [channel_range_start |-> 101, channel_range_end |-> NoInt]
    /\ epgGroups = [g \in {1, 2} |-> GroupRow(NoInt, "", g, 0)]
    /\ numChannels = <<>>
    /\ numConn = [c \in Conns |-> IdleConn]
    /\ numLast = NoNumberCall

\* what a call of get_next_channel_number leaves behind
NumberCall(c, group_id, channel_id, next_pc) ==
    LET r == get_next_channel_number(Db, group_id, TRUE) IN
    /\ epgGroups' = r.groups
    /\ numLast' = [group_id |-> group_id, ret |-> r.ret,
                   range_start |-> get_global_channel_range(Db)[1],
                   range_end |-> effective_end(Db)]
    /\ numConn' = [numConn EXCEPT ![c] =
            IF Falsy(r.ret) THEN IdleConn
            ELSE [pc |-> next_pc, group_id |-> group_id, channel_id |-> channel_id,
                  new_number |-> r.ret]]

\* a channel is about to be created for the group: its number is asked for
GetNumberForCreate(c, group_id) ==
    /\ numConn[c].pc = "idle"
    /\ Len(numChannels) < MaxNumbered
    /\ NumberCall(c, group_id, 0, "create")
    /\ UNCHANGED <<settingsRow, numChannels>>
    /\ UNCHANGED nonNumVars

\* create_managed_channel(..., channel_number=number)
CreateNumbered(c) ==
    /\ numConn[c].pc = "create"
    /\ Len(numChannels) < MaxNumbered
    /\ numChannels' = Append(numChannels,
            [event_epg_group_id |-> numConn[c].group_id,
             channel_number |-> numConn[c].new_number, deleted |-> FALSE])
    /\ numConn' = [numConn EXCEPT ![c] = IdleConn]
    /\ UNCHANGED <<settingsRow, epgGroups, numLast>>
    /\ UNCHANGED nonNumVars

\* reassign_out_of_range_channel, up to the return of get_next_channel_number
ReassignBegin(c, channel_id) ==
    /\ numConn[c].pc = "idle"
    /\ channel_id \in DOMAIN numChannels
    /\ ~numChannels[channel_id].deleted
    /\ ~validate_channel_in_range(Db, numChannels[channel_id].event_epg_group_id,
                                  numChannels[channel_id].channel_number)
    /\ NumberCall(c, numChannels[channel_id].event_epg_group_id, channel_id, "reassign")
    /\ UNCHANGED <<settingsRow, numChannels>>
    /\ UNCHANGED nonNumVars

\* reassign_out_of_range_channel: UPDATE managed_channels SET channel_number, commit
ReassignWrite(c) ==
    /\ numConn[c].pc = "reassign"
    /\ numChannels' = [numChannels EXCEPT ![numConn[c].channel_id].channel_number =
                                              numConn[c].new_number]
    /\ numConn' = [numConn EXCEPT ![c] = IdleConn]
    /\ UNCHANGED <<settingsRow, epgGroups, numLast>>
    /\ UNCHANGED nonNumVars

\* mark_channel_deleted on a numbered channel
DeleteNumbered(channel_id) ==
    /\ channel_id \in DOMAIN numChannels
    /\ ~numChannels[channel_id].deleted
    /\ numChannels' = [numChannels EXCEPT ![channel_id].deleted = TRUE]
    /\ UNCHANGED <<settingsRow, epgGroups, numConn, numLast>>
    /\ UNCHANGED nonNumVars

\* PUT /settings/lifecycle -> update_lifecycle_settings(channel_range_start, channel_range_end)
UpdateRange(s) ==
    /\ s # settingsRow
    /\ settingsRow' = s
    /\ UNCHANGED <<epgGroups, numChannels, numConn, numLast>>
    /\ UNCHANGED nonNumVars

(***************************************************************************)
(* dispatcharr/client.py                                                   *)
(***************************************************************************)
\* Retryable HTTP status codes (server-side transient errors)
RETRYABLE_STATUS_CODES == {502, 503, 504}
base_delay == 1
max_delay == 32
\* random.uniform(0.5, 1.5) in halves
Jitters == {1, 2, 3}
\* what one client.get/post/patch/delete call ends in: a response with its
\* status code, or an exception of httpx
Exceptions == {"ConnectError", "TimeoutException", "RequestError"}
StatusCodes == {200, 401, 500, 502, 503, 504}
NoResponse == [kind |-> "none", status |-> NoInt]
Response(code) == [kind |-> "response", status |-> code]
Raised(e) == [kind |-> e, status |-> NoInt]
AttemptOutcomes == {Response(c) : c \in StatusCodes} \cup {Raised(e) : e \in Exceptions}

Pow2(n) == IF n = 0 THEN 1 ELSE IF n = 1 THEN 2 ELSE IF n = 2 THEN 4 ELSE IF n = 3 THEN 8 ELSE IF n = 4 THEN 16 ELSE 32 * (n - 4)

\* _calculate_backoff(attempt): min(max_delay, base_delay * 2^attempt) * jitter,
\* in half seconds
_calculate_backoff(attempt, jitter) ==
    (IF base_delay * Pow2(attempt) < max_delay THEN base_delay * Pow2(attempt) ELSE max_delay) * jitter

IdleHttp == [pc |-> "idle", attempt |-> 0, retry_on_401 |-> TRUE, outcomes |-> <<>>, delay |-> 0, ret |-> NoResponse]

InitHttpIdle == http = IdleHttp

\* request(method, endpoint, data, retry_on_401): entry
RequestBegin ==
    /\ http.pc \in {"idle", "done"}
    /\ http' = [IdleHttp EXCEPT !.pc = "token"]
    /\ UNCHANGED nonHttpVars

\* token = self._auth.get_token(); if not token: return None
RequestToken(token_ok) ==
    /\ http.pc = "token"
    /\ http' = IF token_ok THEN [http EXCEPT !.pc = "attempt", !.attempt = 0]
                ELSE [http EXCEPT !.pc = "done", !.ret = NoResponse]
    /\ UNCHANGED nonHttpVars

request_attempt_reauth_always(h, out, jitter) ==
    LET seen == [h EXCEPT !.outcomes = Append(@, out)] IN
    IF out.kind = "response"
    THEN IF out.status = 401
         THEN [seen EXCEPT !.pc = "token"]
         ELSE IF out.status \in RETRYABLE_STATUS_CODES /\ h.attempt < MaxRetries
         THEN [seen EXCEPT !.attempt = @ + 1, !.delay = _calculate_backoff(h.attempt, jitter)]
         ELSE [seen EXCEPT !.pc = "done", !.ret = out]
    ELSE IF out.kind \in {"ConnectError", "TimeoutException"}
    THEN IF h.attempt < MaxRetries
         THEN [seen EXCEPT !.attempt = @ + 1, !.delay = _calculate_backoff(h.attempt, jitter)]
         ELSE [seen EXCEPT !.pc = "done", !.ret = NoResponse]
    ELSE [seen EXCEPT !.pc = "done", !.ret = NoResponse]

\* one pass of "for attempt in range(self._max_retries + 1)"
request_attempt(h, out, jitter) ==
    LET seen == [h EXCEPT !.outcomes = Append(@, out)] IN
    IF out.kind = "response"
    THEN IF out.status = 401 /\ h.retry_on_401
         \* self._auth.clear(); return self.request(..., retry_on_401=False)
         THEN [seen EXCEPT !.pc = "token", !.retry_on_401 = FALSE]
         ELSE IF out.status \in RETRYABLE_STATUS_CODES /\ h.attempt < MaxRetries
         \* time.sleep(delay); continue
         THEN [seen EXCEPT !.attempt = @ + 1, !.delay = _calculate_backoff(h.attempt, jitter)]
         \* return response (also after "Max retries exceeded")
         ELSE [seen EXCEPT !.pc = "done", !.ret = out]
    ELSE IF out.kind \in {"ConnectError", "TimeoutException"}
    THEN IF h.attempt < MaxRetries
         THEN [seen EXCEPT !.attempt = @ + 1, !.delay = _calculate_backoff(h.attempt, jitter)]
         \* the loop ends: return None
         ELSE [seen EXCEPT !.pc = "done", !.ret = NoResponse]
    \* except httpx.RequestError: return None
    ELSE [seen EXCEPT !.pc = "done", !.ret = NoResponse]

RequestAttempt(out, jitter) ==
    /\ http.pc = "attempt"
    /\ http' = request_attempt(http, out, jitter)
    /\ UNCHANGED nonHttpVars

(***************************************************************************)
(* consumers/scheduler.py: the write of the merged XMLTV file              *)
(***************************************************************************)
\* what a path holds: no file, a file opened for writing and still empty,
\* a file holding a part of a document, or the complete document of a write
Missing == [state |-> "missing", version |-> 0]
Empty(v) == [state |-> "empty", version |-> v]
Partial(v) == [state |-> "partial", version |-> v]
Complete(v) == [state |-> "complete", version |-> v]

InitEpgFile ==
    epgFile = [pc |-> "idle", out |-> Missing, bak |-> Missing, prev |-> Missing,
               new |-> 0, file_written |-> FALSE, error |-> FALSE]

\* merged_xmltv = merge_xmltv_content(xmltv_contents); output_file.exists()
EpgWriteBegin ==
    /\ epgFile.pc \in {"idle", "done"}
    /\ epgFile.new < MaxWrites
    /\ epgFile' = [epgFile EXCEPT !.pc = IF epgFile.out.state # "missing" THEN "backup" ELSE "write",
                                  !.prev = epgFile.out,
                                  !.new = @ + 1,
                                  !.file_written = FALSE,
                                  !.error = FALSE]
    /\ UNCHANGED nonFileVars

\* if backup_path.exists(): backup_path.unlink()
EpgUnlinkBackup(ok) ==
    /\ epgFile.pc = "backup"
    /\ epgFile.bak.state # "missing"
    /\ epgFile' = IF ok THEN [epgFile EXCEPT !.bak = Missing]
                   \* except Exception: "Could not create backup"
                   ELSE [epgFile EXCEPT !.pc = "write"]
    /\ UNCHANGED nonFileVars

\* output_file.rename(backup_path)
EpgRenameToBackup(ok) ==
    /\ epgFile.pc = "backup"
    /\ epgFile.bak.state = "missing"
    /\ epgFile' = IF ok THEN [epgFile EXCEPT !.pc = "write", !.bak = epgFile.out, !.out = Missing]
                   ELSE [epgFile EXCEPT !.pc = "write"]
    /\ UNCHANGED nonFileVars

\* output_file.write_text(merged_xmltv): open(path, "w") creates or truncates
EpgWriteOpen(ok) ==
    /\ epgFile.pc = "write"
    /\ epgFile' = IF ok THEN [epgFile EXCEPT !.pc = "data", !.out = Empty(epgFile.new)]
                   \* except Exception: result["error"] = str(e); return result
                   ELSE [epgFile EXCEPT !.pc = "done", !.error = TRUE]
    /\ UNCHANGED nonFileVars

\* ... f.write(data), close: all of the data, or an error after a part of it
EpgWriteData(written) ==
    /\ epgFile.pc = "data"
    /\ epgFile' = IF written = "all"
                   THEN [epgFile EXCEPT !.pc = "done", !.out = Complete(epgFile.new), !.file_written = TRUE]
                   ELSE IF written = "part"
                   THEN [epgFile EXCEPT !.pc = "done", !.out = Partial(epgFile.new), !.error = TRUE]
                   ELSE [epgFile EXCEPT !.pc = "done", !.error = TRUE]
    /\ UNCHANGED nonFileVars

(***************************************************************************)
(* services/league_mappings.py                                             *)
(***************************************************************************)
\* enabled rows of the leagues table, ORDER BY provider, league_code
LeagueTables == {<<"nba">>, <<"nba", "nfl">>, <<"nfl", "ufc">>}
SeqRange(q) == {q[k] : k \in DOMAIN q}
\* _mappings and _league_aliases after _load_all_mappings over rows
Loaded(rows) == [mappings |-> SeqRange(rows), aliases |-> SeqRange(rows)]
LeagueMapContents == [mappings |-> leagueMap.mappings, aliases |-> leagueMap.aliases]

\* LeagueMappingService.__init__: empty dicts, then _load_all_mappings()
InitLeagueMap ==
    leagueMap = [pc |-> "idle", db |-> <<"nba">>, rows |-> <<"nba">>, pos |-> 0,
                 mappings |-> {"nba"}, aliases |-> {"nba"}, old |-> Loaded(<<"nba">>)]

\* the leagues table is edited (config change)
UpdateLeagues(rows) ==
    /\ leagueMap.pc = "idle"
    /\ rows # leagueMap.db
    /\ leagueMap' = [leagueMap EXCEPT !.db = rows]
    /\ UNCHANGED nonLeagueMapVars

\* reload(): self._mappings.clear()
ReloadClearMappings ==
    /\ leagueMap.pc = "idle"
    /\ leagueMap' = [leagueMap EXCEPT !.pc = "clear", !.old = LeagueMapContents, !.mappings = {}]
    /\ UNCHANGED nonLeagueMapVars

\* reload(): the other .clear() calls, then _load_all_mappings() runs its
\* SELECT ... FROM leagues WHERE enabled = 1 and cursor.fetchall()
ReloadClearRest ==
    /\ leagueMap.pc = "clear"
    /\ leagueMap' = [leagueMap EXCEPT !.pc = "load", !.aliases = {}, !.rows = leagueMap.db, !.pos = 1]
    /\ UNCHANGED nonLeagueMapVars

\* _load_all_mappings(): one pass of "for row in cursor.fetchall()"
ReloadLoadRow ==
    /\ leagueMap.pc = "load"
    /\ leagueMap' = IF leagueMap.pos > Len(leagueMap.rows)
                     THEN [leagueMap EXCEPT !.pc = "idle", !.pos = 0]
                     ELSE [leagueMap EXCEPT !.mappings = @ \cup {leagueMap.rows[leagueMap.pos]},
                                            !.aliases = @ \cup {leagueMap.rows[leagueMap.pos]},
                                            !.pos = @ + 1]
    /\ UNCHANGED nonLeagueMapVars

(***************************************************************************)
(* services/detection_keywords.py                                          *)
(***************************************************************************)
Readers == 1..NumReaders
\* utilities/constants.py LEAGUE_HINT_PATTERNS (two of them)
LEAGUE_HINT_PATTERNS == <<"nhl", "ufc">>
\* a value of the class attribute or of a return: None, a list, or the
\* AttributeError of None.append
NoneValue == [kind |-> "none", items |-> <<>>]
ListValue(items) == [kind |-> "list", items |-> items]
ErrorValue == [kind |-> "error", items |-> <<>>]
NotCalled == [kind |-> "not_called", items |-> <<>>]
IdleReader == [pc |-> "idle", pos |-> 0, ret |-> NotCalled]

\* _league_hints: ClassVar[...] = None
InitKwCache ==
    kwCache = [hints |-> NoneValue, rd |-> [r \in Readers |-> IdleReader]]

\* get_league_hints(): if cls._league_hints is None: cls._league_hints = []
GetLeagueHintsBegin(r) ==
    /\ kwCache.rd[r].pc = "idle"
    /\ kwCache' = IF kwCache.hints.kind = "none"
                   THEN [kwCache EXCEPT !.hints = ListValue(<<>>),
                                        !.rd[r] = [pc |-> "build", pos |-> 1, ret |-> NotCalled]]
                   ELSE [kwCache EXCEPT !.rd[r] = [pc |-> "return", pos |-> 0, ret |-> NotCalled]]
    /\ UNCHANGED nonKwVars

\* one pass of "for pattern_str, code in LEAGUE_HINT_PATTERNS":
\* cls._league_hints.append((compiled, code))
GetLeagueHintsAppend(r) ==
    /\ kwCache.rd[r].pc = "build"
    /\ kwCache' = IF kwCache.rd[r].pos > Len(LEAGUE_HINT_PATTERNS)
                   THEN [kwCache EXCEPT !.rd[r].pc = "return"]
                   ELSE IF kwCache.hints.kind = "none"
                   THEN [kwCache EXCEPT !.rd[r] = [pc |-> "idle", pos |-> 0, ret |-> ErrorValue]]
                   ELSE [kwCache EXCEPT !.hints = ListValue(Append(kwCache.hints.items, LEAGUE_HINT_PATTERNS[kwCache.rd[r].pos])),
                                        !.rd[r].pos = @ + 1]
    /\ UNCHANGED nonKwVars

\* return cls._league_hints
GetLeagueHintsReturn(r) ==
    /\ kwCache.rd[r].pc = "return"
    /\ kwCache' = [kwCache EXCEPT !.rd[r] = [pc |-> "idle", pos |-> 0, ret |-> kwCache.hints]]
    /\ UNCHANGED nonKwVars

\* invalidate_cache(): cls._league_hints = None
InvalidateCache ==
    /\ kwCache.hints.kind # "none"
    /\ kwCache' = [kwCache EXCEPT !.hints = NoneValue]
    /\ UNCHANGED nonKwVars

(***************************************************************************)
(* consumers/ufc_segments.py                                               *)
(***************************************************************************)
\* Segment codes ordered from earliest to latest
SEGMENT_ORDER == <<"early_prelims", "prelims", "main_card">>
\* times of day in half hours
HalfHoursPerDay == 48
\* (sport_durations or {}).get("mma", 5.0), in half hours
mma_duration == 10

\* events: a pay-per-view card with three segments, a Fight Night with two,
\* and an event of another league
UfcPpv == [id |-> "600", sport |-> "mma", league |-> "ufc",
           segment_times |-> [seg \in {"early_prelims", "prelims", "main_card"} |->
               IF seg = "early_prelims" THEN 36 ELSE IF seg = "prelims" THEN 40 ELSE 44]]
UfcFightNight == [id |-> "601", sport |-> "mma", league |-> "ufc",
                  segment_times |-> [seg \in {"prelims", "main_card"} |->
                      IF seg = "prelims" THEN 38 ELSE 42]]
NbaGame == [id |-> "401", sport |-> "basketball", league |-> "nba",
            segment_times |-> [seg \in {} |-> 0]]
MatchedEvents == {UfcPpv, UfcFightNight, NbaGame}

\* one element of matched_streams: the event, the classifier's card_segment
\* (None when neither the classifier nor detect_card_segment finds one),
\* whether is_ufc_excluded(name) holds, and the time in the stream's name
StreamMatch(event, card_segment, excluded, stream_time) ==
    [event |-> event, card_segment |-> card_segment, excluded |-> excluded, stream_time |-> stream_time]

MatchInputs ==
    {StreamMatch(e, seg, FALSE, NoInt) :
        e \in {UfcPpv, UfcFightNight}, seg \in {None, "early_prelims", "prelims", "main_card", "combined"}}
    \cup {StreamMatch(e, "prelims", FALSE, 36) : e \in {UfcPpv, UfcFightNight}}
    \cup {StreamMatch(e, None, TRUE, NoInt) : e \in {UfcPpv, NbaGame}}
    \cup {StreamMatch(NbaGame, None, FALSE, NoInt)}

is_ufc_event(event) == event.sport = "mma" /\ event.league = "ufc"

SegmentIndex(segment) ==
    IF \E k \in DOMAIN SEGMENT_ORDER : SEGMENT_ORDER[k] = segment
    THEN CHOOSE k \in DOMAIN SEGMENT_ORDER : SEGMENT_ORDER[k] = segment
    ELSE 0

\* canonicalize_segment(detected, event)
canonicalize_segment(detected, event) ==
    LET espn_segments == DOMAIN event.segment_times
        idx == SegmentIndex(detected)
        later == {k \in DOMAIN SEGMENT_ORDER : k >= idx /\ SEGMENT_ORDER[k] \in espn_segments}
        earlier == {k \in DOMAIN SEGMENT_ORDER : k < idx /\ SEGMENT_ORDER[k] \in espn_segments}
    IN  IF espn_segments = {} THEN detected
        ELSE IF detected \in espn_segments THEN detected
        ELSE IF idx > 0 /\ later # {}
        THEN SEGMENT_ORDER[CHOOSE k \in later : \A j \in later : k <= j]
        ELSE IF idx > 0 /\ earlier # {}
        THEN SEGMENT_ORDER[CHOOSE k \in earlier : \A j \in earlier : k >= j]
        ELSE IF "main_card" \in espn_segments THEN "main_card"
        ELSE CHOOSE seg \in espn_segments : TRUE

time_distance(t1, t2) ==
    LET diff == IF t1 >= t2 THEN t1 - t2 ELSE t2 - t1 IN
    IF diff < HalfHoursPerDay - diff THEN diff ELSE HalfHoursPerDay - diff

\* disambiguate_prelims_by_time(detected_segment, stream_time, event)
disambiguate_prelims_by_time(detected_segment, stream_time, event) ==
    IF detected_segment # "prelims" THEN detected_segment
    ELSE IF stream_time = NoInt \/ DOMAIN event.segment_times = {} THEN detected_segment
    ELSE IF ~({"early_prelims", "prelims"} \subseteq DOMAIN event.segment_times) THEN detected_segment
    ELSE IF time_distance(stream_time, event.segment_times["early_prelims"])
               < time_distance(stream_time, event.segment_times["prelims"])
    THEN "early_prelims"
    ELSE detected_segment

\* the segment a UFC match is filed under in ufc_by_segment
match_segment(m) ==
    LET detected == IF m.card_segment = None THEN "main_card"
                    ELSE IF m.card_segment = "combined" THEN "main_card"
                    ELSE m.card_segment
        by_time == IF detected = "prelims" /\ m.stream_time # NoInt
                   THEN disambiguate_prelims_by_time(detected, m.stream_time, m.event)
                   ELSE detected
    IN canonicalize_segment(by_time, m.event)

\* get_segment_times(event, segment, sport_durations), events with ESPN data
get_segment_times(event, segment) ==
    LET start_time == event.segment_times[segment]
        following == {k \in DOMAIN SEGMENT_ORDER :
                        k > SegmentIndex(segment) /\ SEGMENT_ORDER[k] \in DOMAIN event.segment_times}
    IN  [start |-> start_time,
         end |-> IF following # {}
                 THEN event.segment_times[SEGMENT_ORDER[CHOOSE k \in following : \A j \in following : k <= j]]
                 ELSE start_time + mma_duration \div 2]

\* an element of the returned list: a match passed through unchanged, or a
\* segment_match; stream is the position of the stream in matched_streams
PassedThrough(i, m) ==
    [stream |-> i, event |-> m.event.id, segment |-> None, segment_start |-> NoInt, segment_end |-> NoInt]
SegmentMatch(i, event, segment) ==
    [stream |-> i, event |-> event.id, segment |-> segment,
     segment_start |-> get_segment_times(event, segment).start,
     segment_end |-> get_segment_times(event, segment).end]

\* the positions in S, ascending
RECURSIVE AscendingSeq(_)
AscendingSeq(S) ==
    IF S = {} THEN <<>>
    ELSE LET i == CHOOSE x \in S : \A y \in S : x <= y IN <<i>> \o AscendingSeq(S \ {i})

RECURSIVE FlattenSeq(_)
FlattenSeq(q) == IF q = <<>> THEN <<>> ELSE Head(q) \o FlattenSeq(Tail(q))

\* positions filed into ufc_by_segment: UFC and not excluded
FiledPositions(matched_streams) ==
    {i \in DOMAIN matched_streams :
        is_ufc_event(matched_streams[i].event) /\ ~matched_streams[i].excluded}

\* keys of ufc_by_segment in insertion order: the first filed position of each event
FirstOfEvents(matched_streams) ==
    {i \in FiledPositions(matched_streams) :
        \A j \in FiledPositions(matched_streams) :
            matched_streams[j].event.id = matched_streams[i].event.id => i <= j}

SegmentStreams(matched_streams, event_id, segment) ==
    {i \in FiledPositions(matched_streams) :
        matched_streams[i].event.id = event_id /\ match_segment(matched_streams[i]) = segment}

\* the segment matches of the positions in S, in input order
SegmentEntries(matched_streams, S, event, segment) ==
    LET order == AscendingSeq(S) IN
    [k \in DOMAIN order |-> SegmentMatch(order[k], event, segment)]

\* the matches that pass through unchanged, in input order
PassedEntries(matched_streams) ==
    LET order == AscendingSeq({i \in DOMAIN matched_streams : ~is_ufc_event(matched_streams[i].event)}) IN
    [k \in DOMAIN order |-> PassedThrough(order[k], matched_streams[order[k]])]

FirstOnly(S) == IF S = {} THEN {} ELSE {CHOOSE x \in S : \A y \in S : x <= y}

expand_ufc_segments_one_per_group(matched_streams) ==
    LET events == AscendingSeq(FirstOfEvents(matched_streams))
        of_event(f) ==
            FlattenSeq([k \in DOMAIN SEGMENT_ORDER |->
                SegmentEntries(matched_streams,
                               FirstOnly(SegmentStreams(matched_streams, matched_streams[f].event.id, SEGMENT_ORDER[k])),
                               matched_streams[f].event, SEGMENT_ORDER[k])])
    IN PassedEntries(matched_streams) \o FlattenSeq([e \in DOMAIN events |-> of_event(events[e])])

\* expand_ufc_segments(matched_streams, sport_durations)
expand_ufc_segments(matched_streams) ==
    LET events == AscendingSeq(FirstOfEvents(matched_streams))
        \* for segment in SEGMENT_ORDER: for match in streams_for_segment:
        \* result.append(segment_match)
        of_event(f) ==
            FlattenSeq([k \in DOMAIN SEGMENT_ORDER |->
                SegmentEntries(matched_streams,
                               SegmentStreams(matched_streams, matched_streams[f].event.id, SEGMENT_ORDER[k]),
                               matched_streams[f].event, SEGMENT_ORDER[k])])
    \* non-UFC matches are appended in the first loop, the segment entries
    \* follow "for event_id, segments in ufc_by_segment.items()"
    IN PassedEntries(matched_streams) \o FlattenSeq([e \in DOMAIN events |-> of_event(events[e])])

RECURSIVE SeqsUpTo(_, _)
SeqsUpTo(S, n) ==
    IF n = 0 THEN {<<>>}
    ELSE SeqsUpTo(S, n - 1) \cup {Append(q, x) : q \in {p \in SeqsUpTo(S, n - 1) : Len(p) = n - 1}, x \in S}

InitUfcIdle == ufcExp = [pc |-> "input", matched_streams |-> <<>>, result |-> <<>>]

InitUfcInputs ==
    ufcExp \in {[pc |-> "input", matched_streams |-> ms, result |-> <<>>] : ms \in SeqsUpTo(MatchInputs, MaxMatches)}

ExpandUfcSegments ==
    /\ ufcExp.pc = "input"
    /\ ufcExp' = [ufcExp EXCEPT !.pc = "done", !.result = expand_ufc_segments(ufcExp.matched_streams)]
    /\ UNCHANGED nonUfcVars

(***************************************************************************)
(* services/stream_ordering.py, database/channels/streams.py               *)
(***************************************************************************)
\* Default priority for streams that don't match any rule
NO_MATCH_PRIORITY == 999

OrderingRule(type, value, priority) == [type |-> type, value |-> value, priority |-> priority]
\* stream_ordering_rules of the settings: none, one rule, rules out of order
RuleLists ==
    {<<>>,
     <<OrderingRule("m3u", <<"P", "r", "o", "v", " ", "A">>, 1)>>,
     <<OrderingRule("regex", <<"h", "d">>, 5), OrderingRule("m3u", <<"p", "r", "o", "v", " ", "a">>, 2)>>,
     <<OrderingRule("group", <<"u", "f", "c">>, 3), OrderingRule("regex", <<"H", "D">>, 3)>>}

\* SELECT name FROM event_epg_groups WHERE id = ?; the empty text is None
OrderGroupNames == <<<<"U", "F", "C">>>>

\* managed_channel_streams rows of one channel; the empty text is NULL,
\* source_group_id 0 is NULL
OrderedStream(name, account, group, priority, added_at, removed) ==
    [stream_name |-> name, m3u_account_name |-> account, source_group_id |-> group,
     priority |-> priority, added_at |-> added_at, removed |-> removed]

StreamKinds ==
    {[name |-> <<"E", "S", "P", "N">>, account |-> <<>>, group |-> 0],
     [name |-> <<"E", "S", "P", "N">>, account |-> <<"p", "r", "o", "v", " ", "a">>, group |-> 0],
     [name |-> <<"E", "S", "P", "N", " ", "H", "D">>, account |-> <<>>, group |-> 0],
     [name |-> <<>>, account |-> <<>>, group |-> 1]}

StreamRowInputs ==
    {OrderedStream(k.name, k.account, k.group, priority, added_at, FALSE) :
        k \in StreamKinds, priority \in {0, 2, NO_MATCH_PRIORITY}, added_at \in {1, 2}}
    \cup {OrderedStream(<<"E", "S", "P", "N", " ", "H", "D">>, <<>>, 0, 0, 1, TRUE)}

\* (a1, a2) <= (b1, b2) of two sort keys
KeyLE(a, b) == a[1] < b[1] \/ (a[1] = b[1] /\ a[2] <= b[2])

\* sorted(items, key=...): stable, items as [key, item] records
RECURSIVE StableSort(_)
StableSort(q) ==
    IF q = <<>> THEN <<>>
    ELSE LET front == StableSort(SubSeq(q, 1, Len(q) - 1))
             x == q[Len(q)]
             pos == Cardinality({k \in DOMAIN front : KeyLE(front[k].key, x.key)})
         IN SubSeq(front, 1, pos) \o <<x>> \o SubSeq(front, pos + 1, Len(front))

SortedItems(q) == LET sorted == StableSort(q) IN [k \in DOMAIN sorted |-> sorted[k].item]

\* self.rules = sorted(rules, key=lambda r: r.priority)
SortedRules(rule_list) ==
    SortedItems([k \in DOMAIN rule_list |-> [key |-> <<rule_list[k].priority, 0>>, item |-> rule_list[k]]])

\* _match_m3u, _match_group, _match_regex
_matches(stream, rule) ==
    IF rule.type = "m3u"
    THEN stream.m3u_account_name # <<>> /\ str_lower(stream.m3u_account_name) = str_lower(rule.value)
    ELSE IF rule.type = "group"
    THEN /\ stream.source_group_id \in DOMAIN OrderGroupNames
         /\ str_lower(OrderGroupNames[stream.source_group_id]) = str_lower(rule.value)
    ELSE IF rule.type = "regex"
    THEN stream.stream_name # <<>> /\ Contains(str_lower(rule.value), str_lower(stream.stream_name))
    ELSE FALSE

\* compute_priority(stream): the first matching rule of self.rules
compute_priority(sorted_rules, stream) ==
    LET hits == {k \in DOMAIN sorted_rules : _matches(stream, sorted_rules[k])} IN
    IF hits = {} THEN NO_MATCH_PRIORITY
    ELSE sorted_rules[CHOOSE k \in hits : \A j \in hits : k <= j].priority

sort_streams_by_stored_priority(rule_list, streams) ==
    SortedItems([k \in DOMAIN streams |-> [key |-> <<streams[k].priority, streams[k].added_at>>, item |-> streams[k]]])

\* sort_streams(streams, source_group_names)
sort_streams(rule_list, streams) ==
    IF rule_list = <<>>
    \* No rules - preserve existing order by added_at
    THEN SortedItems([k \in DOMAIN streams |->
            [key |-> <<streams[k].priority, streams[k].added_at>>, item |-> streams[k]]])
    ELSE SortedItems([k \in DOMAIN streams |->
            [key |-> <<compute_priority(SortedRules(rule_list), streams[k]), streams[k].added_at>>,
             item |-> streams[k]]])

\* get_channel_streams(conn, managed_channel_id): removed_at IS NULL
\* ORDER BY priority, added_at
get_channel_streams(rows) ==
    LET active == SelectSeq(rows, LAMBDA r : ~r.removed) IN
    SortedItems([k \in DOMAIN active |-> [key |-> <<active[k].priority, active[k].added_at>>, item |-> active[k]]])

InitOrderingIdle == ordering = [pc |-> "input", rules |-> <<>>, rows |-> <<>>, result |-> <<>>]

InitOrderingInputs ==
    ordering \in {[pc |-> "input", rules |-> rule_list, rows |-> rows, result |-> <<>>] :
                    rule_list \in RuleLists, rows \in SeqsUpTo(StreamRowInputs, MaxOrdered)}

\* the ordering service of the current rules sorts the channel's active streams
SortChannelStreams ==
    /\ ordering.pc = "input"
    /\ ordering' = [ordering EXCEPT !.pc = "done",
                        !.result = sort_streams(ordering.rules, get_channel_streams(ordering.rows))]
    /\ UNCHANGED nonOrderingVars

(***************************************************************************)
(* Specifications                                                          *)
(***************************************************************************)
\* the adapters and services at rest
InitExtIdle ==
    /\ InitHttpIdle
    /\ InitEpgFile
    /\ InitLeagueMap
    /\ InitKwCache
    /\ InitUfcIdle
    /\ InitOrderingIdle
    /\ InitCategorizeIdle
    /\ InitSchedObj

\* the lifecycle manager at rest, for the specifications of other subsystems
InitTimingIdle ==
    /\ tmCfg = [create_timing |-> "same_day", delete_timing |-> "day_after"]
    /\ tmEvent = [start |-> EventDay * Day + 20 * Hour, duration |-> 3]
    /\ tmNow = 0
    /\ tmStreamExists = FALSE
    /\ tmCreate = NoDecision
    /\ tmDelete = NoDecision

Init ==
    /\ InitGen
    /\ InitSched
    /\ InitChan
    /\ InitStreams
    /\ InitTimingIdle
    /\ InitRefresh
    /\ InitMatch
    /\ InitNumbersIdle
    /\ InitExtIdle

NextGen ==
    \/ \E w \in Workers : StartGeneration(w)
    \/ \E w \in Workers, s \in StatusInputs \cup {None}, p \in PercentInputs \cup {NoInt} :
          UpdateStatus(w, s, p)
    \/ \E w \in Workers : CompleteGeneration(w)
    \/ \E w \in Workers : FailGeneration(w)
    \/ \E w \in Workers : CallbacksDone(w)

SpecGen == Init /\ [][NextGen]_vars

NextSched ==
    \/ \E l \in LoopIds : SchedStart(l)
    \/ \E l \in LoopIds : LoopInitialRun(l)
    \/ \E l \in LoopIds : LoopIntervalRun(l)
    \/ \E l \in LoopIds : LoopExit(l)
    \/ \E m \in ManualIds : ManualRun(m)
    \/ \E t \in Threads, client \in BOOLEAN : EpgStep(t, client)
    \/ \E t \in Threads, o \in {"ok", "error"} : TaskStep(t, o)
    \/ SchedStop

SpecSched == Init /\ [][NextSched]_vars

InitNumbering ==
    /\ InitGen
    /\ InitSched
    /\ InitChan
    /\ InitStreams
    /\ InitTimingIdle
    /\ InitRefresh
    /\ InitMatch
    /\ InitNumbers
    /\ InitExtIdle

NextNumbers ==
    \/ \E c \in Conns, g \in NumberedGroups : GetNumberForCreate(c, g)
    \/ \E c \in Conns : CreateNumbered(c)
    \/ \E c \in Conns, id \in 1..MaxNumbered : ReassignBegin(c, id)
    \/ \E c \in Conns : ReassignWrite(c)
    \/ \E id \in 1..MaxNumbered : DeleteNumbered(id)
    \/ \E s \in RangeSettings : UpdateRange(s)

SpecNumbers == InitNumbering /\ [][NextNumbers]_vars

InitAuto ==
    /\ InitGen
    /\ InitSched
    /\ InitChan
    /\ InitStreams
    /\ InitTimingIdle
    /\ InitRefresh
    /\ InitMatch
    /\ InitAutoNumbers
    /\ InitExtIdle

InitMixed ==
    /\ InitGen
    /\ InitSched
    /\ InitChan
    /\ InitStreams
    /\ InitTimingIdle
    /\ InitRefresh
    /\ InitMatch
    /\ InitMixedNumbers
    /\ InitExtIdle

NextSchedObj ==
    \/ ObjStart
    \/ ObjStopBegin
    \/ ObjStopJoined
    \/ ObjStopTimeout
    \/ \E t \in LoopThreads : ObjTasksDone(t)
    \/ \E t \in LoopThreads : ObjLoopExit(t)
    \/ \E t \in LoopThreads : ObjIntervalRun(t)

SpecSchedObj == Init /\ [][NextSchedObj]_vars

\* one connection numbering the channels of AUTO groups
NextAuto ==
    \/ \E g \in NumberedGroups : GetNumberForCreate(1, g)
    \/ CreateNumbered(1)
    \/ \E id \in 1..MaxNumbered : ReassignBegin(1, id)
    \/ ReassignWrite(1)
    \/ \E id \in 1..MaxNumbered : DeleteNumbered(id)
    \/ \E s \in RangeSettings : UpdateRange(s)

SpecAuto == InitAuto /\ [][NextAuto]_vars

\* one connection numbering the channels of a MANUAL and an AUTO group, every
\* call followed by its write before the next call
NextMixed ==
    \/ \E g \in NumberedGroups : GetNumberForCreate(1, g)
    \/ CreateNumbered(1)
    \/ \E id \in 1..MaxNumbered : ReassignBegin(1, id)
    \/ ReassignWrite(1)
    \/ \E id \in 1..MaxNumbered : DeleteNumbered(id)
    \/ \E s \in RangeSettings : UpdateRange(s)

SpecMixed == InitMixed /\ [][NextMixed]_vars

\* the ticks of one background loop thread
NextTick ==
    \/ SchedStart(1)
    \/ LoopInitialRun(1)
    \/ LoopIntervalRun(1)
    \/ LoopExit(1)
    \/ \E client \in BOOLEAN : EpgStep(1, client)
    \/ \E o \in {"ok", "error"} : TaskStep(1, o)
    \/ SchedStop

SpecTick == Init /\ [][NextTick]_vars

NextChan ==
    \/ \E g \in Groups, ev \in EventRefs, kw \in Keywords, sid \in StreamIds :
          FindOrCreate(g, ev, kw, sid)
    \/ \E id \in ChannelIds, reason \in DeleteReasons : MarkChannelDeleted(id, reason)

NextHttp ==
    \/ RequestBegin
    \/ \E token_ok \in BOOLEAN : RequestToken(token_ok)
    \/ \E out \in AttemptOutcomes, jitter \in Jitters : RequestAttempt(out, jitter)

SpecHttp == Init /\ [][NextHttp]_vars

\* one outcome for every branch of the retry loop: success, 401, a retryable
\* status, a retryable exception and a non-retryable exception
BranchOutcomes ==
    {Response(200), Response(401), Response(503), Raised("ConnectError"), Raised("RequestError")}

NextHttpBranches ==
    \/ RequestBegin
    \/ \E token_ok \in BOOLEAN : RequestToken(token_ok)
    \/ \E out \in BranchOutcomes, jitter \in Jitters : RequestAttempt(out, jitter)

\* get_token() and every client call return: the httpx client has a timeout
SpecHttpFair ==
    /\ Init
    /\ [][NextHttpBranches]_vars
    /\ WF_vars(\E token_ok \in BOOLEAN : RequestToken(token_ok))
    /\ WF_vars(\E out \in BranchOutcomes, jitter \in Jitters : RequestAttempt(out, jitter))

NextEpgFile ==
    \/ EpgWriteBegin
    \/ \E ok \in BOOLEAN : EpgUnlinkBackup(ok)
    \/ \E ok \in BOOLEAN : EpgRenameToBackup(ok)
    \/ \E ok \in BOOLEAN : EpgWriteOpen(ok)
    \/ \E written \in {"all", "part", "nothing"} : EpgWriteData(written)

SpecEpgFile == Init /\ [][NextEpgFile]_vars

NextCaches ==
    \/ \E rows \in LeagueTables : UpdateLeagues(rows)
    \/ ReloadClearMappings
    \/ ReloadClearRest
    \/ ReloadLoadRow
    \/ \E r \in Readers : GetLeagueHintsBegin(r)
    \/ \E r \in Readers : GetLeagueHintsAppend(r)
    \/ \E r \in Readers : GetLeagueHintsReturn(r)
    \/ InvalidateCache

SpecCaches == Init /\ [][NextCaches]_vars

InitUfc ==
    /\ InitGen
    /\ InitSched
    /\ InitChan
    /\ InitStreams
    /\ InitTimingIdle
    /\ InitRefresh
    /\ InitMatch
    /\ InitNumbersIdle
    /\ InitHttpIdle
    /\ InitEpgFile
    /\ InitLeagueMap
    /\ InitKwCache
    /\ InitUfcInputs
    /\ InitOrderingIdle
    /\ InitCategorizeIdle
    /\ InitSchedObj

NextUfc == ExpandUfcSegments

SpecUfc == InitUfc /\ [][NextUfc]_vars

InitOrdering ==
    /\ InitGen
    /\ InitSched
    /\ InitChan
    /\ InitStreams
    /\ InitTimingIdle
    /\ InitRefresh
    /\ InitMatch
    /\ InitNumbersIdle
    /\ InitHttpIdle
    /\ InitEpgFile
    /\ InitLeagueMap
    /\ InitKwCache
    /\ InitUfcIdle
    /\ InitOrderingInputs
    /\ InitCategorizeIdle
    /\ InitSchedObj

NextOrdering == SortChannelStreams

SpecOrdering == InitOrdering /\ [][NextOrdering]_vars

SpecChan == Init /\ [][NextChan]_vars

\* the child processor runs against a channel table built by the parent group
InitChild ==
    /\ InitGen
    /\ InitSched
    /\ channels \in ParentTables
    /\ chanLast = [op |-> "init", id |-> 0]
    /\ InitStreams
    /\ InitTimingIdle
    /\ InitRefresh
    /\ InitMatch
    /\ InitNumbersIdle
    /\ InitExtIdle

NextStreams ==
    \/ \E p \in Procs : ProcBegin(p)
    \/ \E p \in Procs, m \in MatchedInputs : ProcExamine(p, m)
    \/ \E p \in Procs : ProcInsert(p)
    \/ \E p \in Procs : ProcInsertLocked(p)
    \/ \E p \in Procs : ProcStreamError(p)
    \/ \E p \in Procs : ProcCommit(p)
    \/ \E p \in Procs : ProcReturn(p)
    \/ \E c \in ChannelIds, sid \in StreamIds : RemoveStream(c, sid)

SpecStreams == InitChild /\ [][NextStreams]_vars

\* one child processor on its own: the batches of process_child_streams run
\* one after the other
NextChild ==
    \/ ProcBegin(1)
    \/ \E m \in MatchedInputs : ProcExamine(1, m)
    \/ ProcInsert(1)
    \/ ProcStreamError(1)
    \/ ProcCommit(1)
    \/ ProcReturn(1)
    \/ \E c \in ChannelIds, sid \in StreamIds : RemoveStream(c, sid)

SpecChild == InitChild /\ [][NextChild]_vars

(***************************************************************************)
(* Properties                                                              *)
(***************************************************************************)

\* C1: while a generation is in progress start_generation() rejects every
\* further trigger: at most one call has returned True since the last
\* complete_generation()/fail_generation().
C1_SingleGeneration ==
    /\ trueCount <= 1
    /\ Cardinality({w \in Workers : genPc[w] = "running"}) <= 1
    /\ (genLast.op = "start" /\ ~genLast.ret) => status.in_progress

\* C1 witness: a trigger was rejected while another run holds the guard
C1_Witness ==
    /\ genLast.op = "start"
    /\ ~genLast.ret
    /\ \E w \in Workers : genPc[w] = "running"

\* C2: within one run the percent seen through get_status() never
\* decreases, and an update carrying a lower percent leaves it unchanged.
C2_PercentMonotonic ==
    [][/\ (status.in_progress /\ status'.in_progress /\ runNo' = runNo)
            => get_status'.percent >= get_status.percent
       /\ (genLast'.op = "update" /\ genLast' # genLast /\ genLast'.percent # NoInt
            /\ genLast'.percent < status.percent)
            => status'.percent = status.percent]_vars

\* C2 witness: an update with a lower percent was applied during a run
C2_Witness ==
    /\ status.in_progress
    /\ genLast.op = "update"
    /\ genLast.percent # NoInt
    /\ genLast.percent < genLast.before
    /\ status.percent = genLast.before

\* C3: at most one scheduler tick (_run_tasks) runs at a time, whether
\* started by the background loop, by run_once() or by the manual endpoint.
C3_OneTickAtATime == TicksInProgress <= 1

\* the lifecycle manager is configured with any pair of policies and is asked
\* about any event at any time
InitLifecycle ==
    /\ InitGen
    /\ InitSched
    /\ InitChan
    /\ InitStreams
    /\ InitTiming
    /\ InitRefresh
    /\ InitMatch
    /\ InitNumbersIdle
    /\ InitExtIdle

NextTiming ==
    \/ \E n \in NowInputs : AdvanceClock(n)
    \/ StreamChange
    \/ ShouldCreateChannel
    \/ ShouldDeleteChannel

SpecTiming == InitLifecycle /\ [][NextTiming]_vars

\* the lifecycle manager is asked about a matched event: any pair of policies,
\* any event and status, any reading of the clock
InitCategorize ==
    /\ InitGen
    /\ InitSched
    /\ InitChan
    /\ InitStreams
    /\ tmCfg \in [create_timing : CreateTimings, delete_timing : DeleteTimings]
    /\ tmEvent \in [start : StartInputs, duration : DurationInputs]
    /\ tmNow \in NowInputs
    /\ tmStreamExists \in BOOLEAN
    /\ tmCreate = NoDecision
    /\ tmDelete = NoDecision
    /\ InitRefresh
    /\ InitMatch
    /\ InitNumbersIdle
    /\ InitHttpIdle
    /\ InitEpgFile
    /\ InitLeagueMap
    /\ InitKwCache
    /\ InitUfcIdle
    /\ InitOrderingIdle
    /\ InitCategorizeInputs
    /\ InitSchedObj

NextCategorize ==
    \/ ShouldCreateChannel
    \/ ShouldDeleteChannel
    \/ CategorizeEventTiming

SpecCategorize == InitCategorize /\ [][NextCategorize]_vars

NextRefresh ==
    \/ \E k \in {4, 8} : DaysPass(k)
    \/ \E r \in Refreshers :
        \/ TriggerRefresh(r)
        \/ RefreshIfNeeded(r)
        \/ SetRefreshInProgress(r)
        \/ \E data \in FetchInputs : Fetch(r, data)
        \/ FetchNoProviders(r)
        \/ FetchFail(r)
        \/ SaveClear(r)
        \/ SaveLockTimeout(r)
        \/ SaveLeague(r)
        \/ SaveLeaguesDone(r)
        \/ SaveTeam(r)
        \/ SaveCommit(r)
        \/ SaveFail(r)
        \/ \E ok \in BOOLEAN : ApplyDefaultAliases(r, ok)
        \/ UpdateMeta(r)
        \/ ClearRefreshInProgress(r)
        \/ FailUpdateMeta(r)
        \/ FailClearRefreshInProgress(r)
        \/ RefreshReturn(r)

SpecRefresh == Init /\ [][NextRefresh]_vars

NextMatch ==
    \/ \E g \in MatchGroups, sid \in MatchStreamIds, d \in TargetDates,
          tz \in UserTzs, events \in EventLists : Match(g, sid, d, tz, events)
    \/ NextGeneration
    \/ \E key \in CacheKeys : SnapshotUnreadable(key)

SpecMatch == Init /\ [][NextMatch]_vars

\* C4: a downstream stream id appears at most once among a channel's streams
\* with removed_at IS NULL, in every reachable state.
C4_StreamUniquePerChannel ==
    \A c \in ChannelIds, sid \in StreamIds : ActiveCount(mcs, c, sid) <= 1

\* C5: the find-or-create of a channel is idempotent under consolidate mode:
\* no two non-deleted channels of a consolidate group share (event, provider,
\* keyword), and a repeated upsert finds the channel it created.
C5_ConsolidateUpsertIdempotent ==
    \A i, j \in ChannelIds :
        ( /\ i # j
          /\ DuplicateMode[channels[i].event_epg_group_id] = "consolidate"
          /\ ~channels[i].deleted /\ ~channels[j].deleted
          /\ channels[i].event_epg_group_id = channels[j].event_epg_group_id
          /\ channels[i].event_id = channels[j].event_id
          /\ channels[i].event_provider = channels[j].event_provider )
        => channels[i].exception_keyword # channels[j].exception_keyword

\* C5 witness: a repeated upsert found the keyword channel of a consolidate
\* group, next to a soft-deleted or differently keyed row
C5_Witness ==
    /\ chanLast.op = "found"
    /\ Len(channels) = MaxChannels
    /\ DuplicateMode[channels[chanLast.id].event_epg_group_id] = "consolidate"
    /\ channels[chanLast.id].exception_keyword = "Spanish"

\* C6: whenever now is at or after the event's delete threshold,
\* should_create_channel returns act = false, for every create policy.
C6_NoCreatePastDelete ==
    ( /\ tmCreate.done
      /\ _calculate_delete_threshold(tmEvent, tmCfg.delete_timing) # NoTime
      /\ tmNow >= _calculate_delete_threshold(tmEvent, tmCfg.delete_timing) )
    => ~tmCreate.act

\* C7: for every event and every pair of time-based create and delete
\* policies, the threshold used by should_delete_channel is at or after the
\* threshold used by should_create_channel.
C7_DeleteThresholdAfterCreate ==
    ( /\ tmCfg.create_timing # "stream_available"
      /\ tmCfg.delete_timing # "stream_removed"
      /\ tmCreate.done /\ tmDelete.done )
    => /\ tmDelete.threshold # NoTime
       /\ tmCreate.threshold # NoTime
       /\ tmDelete.threshold >= tmCreate.threshold
       /\ tmDelete.threshold >= _calculate_create_threshold(tmEvent, tmCfg.create_timing)

\* C7 witness: both decisions were taken for a midnight-crossing event with
\* the tightest pair of policies, between the two thresholds
C7_Witness ==
    /\ tmCfg = [create_timing |-> "same_day", delete_timing |-> "6_hours_after"]
    /\ tmCreate.done /\ tmDelete.done
    /\ tmCreate.act /\ ~tmDelete.act
    /\ day_start(event_end(tmEvent)) > day_start(tmEvent.start)

\* C8: refresh_in_progress is held by at most one cache refresh at a time: a
\* refresh started while another is in progress does not run concurrently
\* with it.
C8_OneRefreshAtATime == Cardinality(HoldingFlag) <= 1

\* C9: the clear-and-rewrite of team_cache and league_cache is one
\* transaction: a save that fails at any point leaves both tables with their
\* previous contents, and the committed tables only ever change from one
\* complete saved result to another, never to an empty or partial one.
C9_SaveIsOneTransaction ==
    [][ /\ \A r \in Refreshers :
            (rf[r].pc \in {"save", "save_leagues", "save_teams"} /\ rf'[r].pc = "failed")
                => (leagueCache' = leagueCache /\ teamCache' = teamCache)
        /\ (leagueCache' # leagueCache \/ teamCache' # teamCache)
                => \E r \in Refreshers :
                    /\ rf[r].pc = "save_teams" /\ rf'[r].pc = "aliases"
                    /\ leagueCache' = SavedTables(rf[r].data).leagues
                    /\ teamCache' = SavedTables(rf[r].data).teams
        /\ leagueCache' # {} /\ teamCache' # {} ]_vars

\* C9 witness: a save failed after it had cleared the tables and written
\* rows of the new data, and the committed tables still hold the old data
C9_Witness ==
    \E r \in Refreshers :
        /\ rf[r].pc = "failed" /\ rf[r].result = "save_failed"
        /\ rf[r].li + rf[r].ti >= 2
        /\ rf[r].wt # {} /\ rf[r].wt # teamCache
        /\ teamCache = SavedTables(OldData).teams
        /\ leagueCache = SavedTables(OldData).leagues

\* C10: within one match decision the fingerprint cache is written only if
\* the decision ended in a successful match: a decision that ends as failed or
\* filtered creates no entry and changes no entry's event, league, snapshot or
\* match method.
C10_CacheSetOnlyOnMatch ==
    [][ (matchLast' # matchLast /\ matchLast'.outcome.kind \in {"failed", "filtered"})
        => \A key \in CacheKeys :
            \/ fpCache'[key] = NoEntry
            \/ /\ fpCache[key] # NoEntry
               /\ fpCache'[key] = [fpCache[key] EXCEPT !.generation = fpCache'[key].generation]
      ]_vars

\* C10 witness: a decision that went through matching against the day's
\* events ended as failed and left no entry for its stream, while a
\* successful decision has stored one
C10_Witness ==
    /\ matchLast.outcome.kind = "failed"
    /\ matchLast.outcome.detail = "Could not match to any event"
    /\ fpCache[<<matchLast.group_id, matchLast.stream_id>>] = NoEntry
    /\ \E key \in CacheKeys : fpCache[key] # NoEntry /\ fpCache[key].match_method = "keyword"

\* C11: the match method stored in a cache entry is preserved across cache
\* hits: a fresh match by method M stores M, every later hit reports
\* match_method = CACHE with origin_match_method = M and leaves M stored.
C11_OriginMethodPreserved ==
    [][ \A g \in MatchGroups, sid \in MatchStreamIds, d \in TargetDates,
           tz \in UserTzs, events \in EventLists :
          (matchLast'.group_id = g /\ matchLast'.stream_id = sid
             /\ Match(g, sid, d, tz, events)) =>
            LET out == matchLast'.outcome
                before == fpCache[<<g, sid>>]
                after == fpCache'[<<g, sid>>] IN
            /\ out.method = "cache" =>
                  /\ before # NoEntry
                  /\ out.origin = before.match_method
                  /\ out.origin \in {"keyword", "fuzzy"}
                  /\ after.match_method = before.match_method
            /\ (out.kind = "matched" /\ out.method # "cache") =>
                  /\ out.method \in {"keyword", "fuzzy"}
                  /\ after.match_method = out.method
      ]_vars

\* C11 witness: on the second run a stream first matched by fighter surname
\* is served from the cache and reports its origin
C11_Witness ==
    /\ fpGeneration = 2
    /\ matchLast.outcome.method = "cache"
    /\ matchLast.outcome.origin = "fuzzy"
    /\ fpCache[<<matchLast.group_id, matchLast.stream_id>>].match_method = "fuzzy"
    /\ fpCache[<<matchLast.group_id, matchLast.stream_id>>].generation = 2

\* C12: when the cached entry's reconstructed event falls on another date
\* than the requested target date, the call is a miss: the outcome is the one
\* of fresh matching against the provider's events of the target date and
\* never the cached event.
C12_DateMismatchIsMiss ==
    [][ \A g \in MatchGroups, sid \in MatchStreamIds, d \in TargetDates,
           tz \in UserTzs, events \in EventLists :
          ( /\ matchLast'.group_id = g /\ matchLast'.stream_id = sid
            /\ fpCache[<<g, sid>>] # NoEntry
            /\ fpCache[<<g, sid>>].cached_data.ok
            /\ local_date(fpCache[<<g, sid>>].cached_data.event.start, tz) # d
            /\ Match(g, sid, d, tz, events) )
          => LET out == matchLast'.outcome
                 dated == date_events(events, tz, d) IN
             /\ out.method # "cache"
             /\ out.event # fpCache[<<g, sid>>].cached_data.event
             /\ out = IF dated = <<>>
                      THEN Failed("NO_EVENT_CARD_MATCH",
                                  IF events = <<>> THEN "No events for target date"
                                  ELSE "No events on target date")
                      ELSE _match_to_event_card(MatchStreams[sid], dated, "ufc")
      ]_vars

\* C12 witness: a stream with a readable cached entry went through fresh
\* matching against the day's events and failed; the entry is still stored
C12_Witness ==
    /\ matchLast.outcome.kind = "failed"
    /\ matchLast.outcome.detail = "Could not match to any event"
    /\ fpCache[<<matchLast.group_id, matchLast.stream_id>>] # NoEntry
    /\ fpCache[<<matchLast.group_id, matchLast.stream_id>>].cached_data.ok

\* C13: process_child_streams never creates a managed channel: whatever step
\* a child processor takes, the table of managed channels is the same before
\* and after, also when a stream finds no parent channel.
C13_ChildNeverCreatesChannel ==
    [][ (proc' # proc) => channels' = channels ]_vars

C13_Witness ==
    /\ proc[1].pc = "done"
    /\ proc[1].skipped >= 1
    /\ proc[1].reason = "No parent channel for event"
    /\ proc[1].committed = 0
    /\ \A i \in DOMAIN channels : channels[i].deleted

ActiveParents(rows, ev, keywords) ==
    {i \in DOMAIN rows : /\ rows[i].event_epg_group_id = ParentGroup
                         /\ rows[i].event_id = ev.id
                         /\ rows[i].event_provider = ev.provider
                         /\ ~rows[i].deleted
                         /\ rows[i].exception_keyword \in keywords}

ExpectedTarget(rows, ev, kw) ==
    LET same == ActiveParents(rows, ev, IF kw = None THEN {None, ""} ELSE {kw})
        main == ActiveParents(rows, ev, {None, ""}) IN
    IF same # {} THEN CHOOSE i \in same : \A j \in same : i <= j
    ELSE IF kw # None /\ main # {} THEN CHOOSE i \in main : \A j \in main : i <= j
    ELSE 0

\* C14: a child stream goes to the parent's active channel for the same event
\* and keyword; when there is none and the stream has a keyword, to the
\* parent's active main channel; when there is still none the stream is
\* skipped and nothing is written for it.
C14_TargetChannelOrder ==
    [][ /\ \A p \in Procs, m \in MatchedInputs :
              (/\ proc[p].pc = "loop"
               /\ m.event # NoEvent
               /\ check_exception_keyword(m.term)[2] # "ignore"
               /\ ProcExamine(p, m)) =>
                 LET expect == ExpectedTarget(channels, m.event, check_exception_keyword(m.term)[1]) IN
                 IF expect = 0
                 THEN /\ proc'[p].skipped = proc[p].skipped + 1
                      /\ proc'[p].pc = "loop"
                      /\ proc'[p].pending = proc[p].pending
                      /\ mcs' = mcs
                 ELSE \/ proc'[p].pc = "insert" /\ proc'[p].target = expect
                      \/ /\ proc'[p].existing = proc[p].existing + 1
                         /\ stream_exists_on_channel(Visible(p), expect, m.id)
        /\ \A p \in Procs :
              (proc[p].pc = "insert" /\ proc'[p].pc = "loop") =>
                 /\ Len(proc'[p].pending) = Len(proc[p].pending) + 1
                 /\ proc'[p].pending[Len(proc'[p].pending)].managed_channel_id = proc[p].target ]_vars

C14_Witness ==
    /\ proc[1].pc = "insert"
    /\ proc[1].keyword = "Spanish"
    /\ channels[proc[1].target].exception_keyword = None
    /\ \E i \in DOMAIN channels : channels[i].exception_keyword = "Spanish" /\ channels[i].deleted

\* C15: a failure while processing one stream of a batch never aborts the
\* batch: when the call is done every stream of the batch has been visited
\* and the rows of the streams reported as added are in the database.
C15_StreamErrorIsolated ==
    \A p \in Procs :
        proc[p].pc = "done" =>
            /\ proc[p].n = proc[p].size
            /\ proc[p].committed = proc[p].added

\* C16: a failure inside one tick task (a failing group makes the EPG task
\* fail) never aborts the tick: the failure is recorded as the task's result
\* and the next task of the same tick starts; a finished tick has a result
\* for every task.
C16_TaskFailureIsolated ==
    [][ \A t \in Threads :
          /\ (taskPc[t] # 0 /\ results'[t][taskPc[t]] = "error" /\ taskPc'[t] # taskPc[t]) =>
                /\ taskPc'[t] = (IF taskPc[t] = NumTasks THEN 0 ELSE taskPc[t] + 1)
                /\ \A k \in 1..NumTasks : k # taskPc[t] => results'[t][k] = results[t][k]
          /\ (taskPc[t] # 0 /\ taskPc'[t] = 0) =>
                \A k \in 1..NumTasks : results'[t][k] \in {"ok", "error"} ]_vars

C16_Witness ==
    /\ taskPc[1] = 0
    /\ stepLog[1] = <<"m3u_refresh", "teams", "groups", "deletions", "reconciliation", "cleanup">>
    /\ results[1] = <<"error", "ok", "ok", "ok">>

StepOrder == <<"m3u_refresh", "teams", "groups", "deletions", "reconciliation", "cleanup">>

StepRank(step) == CHOOSE k \in 1..Len(StepOrder) : StepOrder[k] = step

\* C17: in every tick the steps start in the order M3U refresh, teams and
\* groups EPG generation, scheduled deletions, detect-only reconciliation,
\* history cleanup, each after the previous one has finished (a thread is at
\* one step at a time, and a step that starts is later in the order than
\* every step the tick has started before).
C17_StepsInOrder ==
    \A t \in Threads :
        /\ \A i, j \in 1..Len(stepLog[t]) :
              i < j => StepRank(stepLog[t][i]) < StepRank(stepLog[t][j])
        /\ taskPc[t] # 0 =>
              IF Tasks[taskPc[t]] = "epg_generation"
              THEN epgStep[t] # 0 => stepLog[t][Len(stepLog[t])] = EpgSteps[epgStep[t]]
              ELSE stepLog[t][Len(stepLog[t])] = Tasks[taskPc[t]]

C17_Witness ==
    /\ taskPc[1] = 0
    /\ stepLog[1] = StepOrder
    /\ results[1] = <<"ok", "ok", "ok", "ok">>

\* C18: once the stop event is set the background loop starts no further
\* unit of work: no thread of the loop begins a tick or goes on to the next
\* task of the tick it is in.
C18_NoWorkAfterStop ==
    [][ stopEvent => \A l \in LoopIds : taskPc'[l] \in {taskPc[l], 0} ]_vars

\* C19: in every reachable state no two not-deleted channels of the same
\* group have the same channel_number.
C19_NumberUniqueInGroup ==
    \A i, j \in DOMAIN numChannels :
        (/\ i < j
         /\ numChannels[i].event_epg_group_id = numChannels[j].event_epg_group_id
         /\ ~numChannels[i].deleted
         /\ ~numChannels[j].deleted) =>
            numChannels[i].channel_number # numChannels[j].channel_number

\* C20: every channel number returned by get_next_channel_number, for a
\* manual group as for an auto group, lies within the global range
\* [range_start, range_end] the call ran under.
C20_NumberWithinGlobalRange ==
    numLast.ret # NoInt =>
        /\ numLast.range_start <= numLast.ret
        /\ numLast.ret <= numLast.range_end

\* the enabled AUTO groups of the table
EnabledAuto == {g \in DOMAIN epgGroups : /\ epgGroups[g].channel_assignment_mode = "auto"
                                         /\ epgGroups[g].enabled}

\* h comes before g in sort_order
Precedes(h, g) ==
    \/ epgGroups[h].sort_order < epgGroups[g].sort_order
    \/ epgGroups[h].sort_order = epgGroups[g].sort_order /\ h < g

RECURSIVE SumOver(_, _)
SumOver(f, S) ==
    IF S = {} THEN 0
    ELSE LET x == CHOOSE y \in S : TRUE IN f[x] + SumOver(f, S \ {x})

\* the not-deleted channel numbers of a group
NumbersInUse(g) ==
    {numChannels[i].channel_number :
        i \in {j \in DOMAIN numChannels : numChannels[j].event_epg_group_id = g
                                             /\ ~numChannels[j].deleted}}

SameIdentity(r1, r2) ==
    /\ r1.event_epg_group_id = r2.event_epg_group_id
    /\ r1.event_id = r2.event_id
    /\ r1.event_provider = r2.event_provider
    /\ r1.exception_keyword = r2.exception_keyword
    /\ r1.primary_stream_id = r2.primary_stream_id

ActiveLookupsOf(rows, i) ==
    {find_existing_channel(rows, rows[i].event_epg_group_id, rows[i].event_id, rows[i].event_provider, kw, sid, mode) :
        kw \in Keywords, sid \in StreamIds \cup {0}, mode \in {"consolidate", "separate", "ignore"}}

C23_DeleteIsSoftOnly ==
    [][/\ Len(channels') >= Len(channels)
       /\ \A i \in DOMAIN channels :
            /\ SameIdentity(channels'[i], channels[i])
            /\ channels[i].deleted => channels'[i] = channels[i]
       /\ chanLast'.op = "deleted" =>
            /\ Len(channels') = Len(channels)
            /\ channels'[chanLast'.id].deleted
            /\ channels'[chanLast'.id].delete_reason \in DeleteReasons
            /\ \A i \in DOMAIN channels : i # chanLast'.id => channels'[i] = channels[i]
            /\ chanLast'.id \notin ActiveLookupsOf(channels', chanLast'.id)
       /\ chanLast'.op = "found" => ~channels[chanLast'.id].deleted]_vars

C23_Witness ==
    /\ chanLast.op = "created"
    /\ \E i \in DOMAIN channels :
         /\ i # chanLast.id
         /\ channels[i].deleted
         /\ channels[i].delete_reason = "event_ended"
         /\ ~channels[chanLast.id].deleted
         /\ SameIdentity(channels[i], channels[chanLast.id])

\* C24: under separate mode there is one channel per primary stream: no two
\* channels of a separate-mode group that are not deleted carry the same
\* event (id and provider) and the same primary stream
C24_SeparateOnePerStream ==
    \A i \in DOMAIN channels : \A j \in DOMAIN channels :
        (/\ i < j
         /\ channels[i].event_epg_group_id = channels[j].event_epg_group_id
         /\ DuplicateMode[channels[i].event_epg_group_id] = "separate"
         /\ ~channels[i].deleted
         /\ ~channels[j].deleted
         /\ channels[i].event_id = channels[j].event_id
         /\ channels[i].event_provider = channels[j].event_provider)
        => channels[i].primary_stream_id # channels[j].primary_stream_id

C24_Witness ==
    /\ chanLast.op = "found"
    /\ Len(channels) = 2
    /\ DuplicateMode[channels[1].event_epg_group_id] = "separate"
    /\ channels[2].event_epg_group_id = channels[1].event_epg_group_id
    /\ channels[2].event_id = channels[1].event_id
    /\ channels[2].event_provider = channels[1].event_provider
    /\ channels[2].primary_stream_id # channels[1].primary_stream_id
    /\ ~channels[1].deleted
    /\ ~channels[2].deleted

\* C25: a request whose every attempt ended in a timeout, a connection
\* error or a 5xx response has been retried until the retries were used up
\* and returns None
TransientOutcome(out) ==
    \/ out.kind \in {"ConnectError", "TimeoutException"}
    \/ out.kind = "response" /\ out.status >= 500

C25_TransientFailureReturnsNone ==
    (/\ http.pc = "done"
     /\ http.outcomes # <<>>
     /\ \A k \in DOMAIN http.outcomes : TransientOutcome(http.outcomes[k]))
    => (http.ret = NoResponse /\ Len(http.outcomes) = MaxRetries + 1)

\* C26: the EPG output file is replaced atomically: once a complete file
\* stands at the output path, the path holds at every instant, during a
\* write and after a write that failed, the complete previous file or the
\* complete new one, and after a successful write the previous file is the
\* backup
C26_OutputReplacedAtomically ==
    epgFile.prev.state = "complete" =>
        /\ epgFile.out \in {epgFile.prev, Complete(epgFile.new)}
        /\ epgFile.file_written => epgFile.bak = epgFile.prev

\* C27: an invalidation replaces the cached structure as a whole: at every
\* instant the dicts of the league mapping service hold the complete
\* contents of before the reload or the complete contents loaded by it, and
\* every call of get_league_hints returns the complete pattern list
C27_CacheReplacedAtomically ==
    /\ LeagueMapContents \in {leagueMap.old, Loaded(leagueMap.rows), Loaded(leagueMap.db)}
    /\ \A r \in Readers :
         kwCache.rd[r].ret \in {NotCalled, ListValue(LEAGUE_HINT_PATTERNS)}

\* C28 as stated: expand emits exactly one expanded match per distinct
\* (event, segment) group of UFC streams: no two segment matches of the
\* returned list carry the same event and the same segment
SegmentMatches == {k \in DOMAIN ufcExp.result : ufcExp.result[k].segment # None}

C28_OneMatchPerGroup ==
    ufcExp.pc = "done" =>
        \A k1 \in SegmentMatches : \A k2 \in SegmentMatches :
            (ufcExp.result[k1].event = ufcExp.result[k2].event /\ ufcExp.result[k1].segment = ufcExp.result[k2].segment)
            => k1 = k2

\* C28 as amended: expand emits exactly one expanded match per UFC stream
\* that is not excluded, carrying the stream's event and one of the
\* event's segments; excluded UFC streams are dropped, other matches pass
\* through once; and the matches of one (event, segment) group stand
\* together in the returned list
C28_OneMatchPerStream ==
    ufcExp.pc = "done" =>
        /\ \A i \in DOMAIN ufcExp.matched_streams :
             LET m == ufcExp.matched_streams[i]
                 out == {k \in DOMAIN ufcExp.result : ufcExp.result[k].stream = i}
             IN  IF is_ufc_event(m.event)
                 THEN IF m.excluded THEN out = {}
                      ELSE /\ Cardinality(out) = 1
                           /\ \A k \in out : /\ ufcExp.result[k].event = m.event.id
                                              /\ ufcExp.result[k].segment \in DOMAIN m.event.segment_times
                 ELSE /\ Cardinality(out) = 1
                      /\ \A k \in out : ufcExp.result[k].segment = None
        /\ \A k \in DOMAIN ufcExp.result : ufcExp.result[k].stream \in DOMAIN ufcExp.matched_streams
        /\ \A k1 \in SegmentMatches : \A k2 \in SegmentMatches :
             (/\ k1 < k2
              /\ ufcExp.result[k1].event = ufcExp.result[k2].event
              /\ ufcExp.result[k1].segment = ufcExp.result[k2].segment)
             => \A k \in k1..k2 : /\ ufcExp.result[k].event = ufcExp.result[k1].event
                                  /\ ufcExp.result[k].segment = ufcExp.result[k1].segment

C28_Witness ==
    /\ ufcExp.pc = "done"
    /\ Len(ufcExp.matched_streams) = 2
    /\ ufcExp.matched_streams[1].card_segment = "combined"
    /\ ufcExp.matched_streams[2].card_segment = "main_card"
    /\ Len(ufcExp.result) = 2
    /\ ufcExp.result[1].stream = 1
    /\ ufcExp.result[2].stream = 2
    /\ ufcExp.result[1].event = "600"
    /\ ufcExp.result[2].event = "600"
    /\ ufcExp.result[1].segment = "main_card"
    /\ ufcExp.result[2].segment = "main_card"

\* C29: fighter-surname matching is used only when the event hint holds no
\* event number: a stream whose hint holds an event number is matched only
\* to an event whose name holds that number on a word boundary, never by a
\* surname, and fails with NO_EVENT_CARD_MATCH otherwise
C29_SurnameOnlyWithoutEventNumber ==
    (/\ matchLast.stream_id # 0
     /\ MatchStreams[matchLast.stream_id].category = "EVENT_CARD"
     /\ _extract_event_number(MatchStreams[matchLast.stream_id].event_hint) # <<>>)
    => /\ matchLast.outcome.method # "fuzzy"
       /\ matchLast.outcome.origin # "fuzzy"
       /\ \/ /\ matchLast.outcome.kind = "matched"
             /\ SearchWord(_extract_event_number(MatchStreams[matchLast.stream_id].event_hint),
                           matchLast.outcome.event.name)
          \/ /\ matchLast.outcome.kind = "failed"
             /\ matchLast.outcome.reason = "NO_EVENT_CARD_MATCH"

\* C30 as stated: the ordered list of a channel's active streams has
\* non-decreasing rule-computed priority (999 when no rule matches), and
\* streams of equal priority are ordered by added_at
RulePriority(stream) == compute_priority(SortedRules(ordering.rules), stream)

OrderPriority(stream) == IF ordering.rules = <<>> THEN stream.priority ELSE RulePriority(stream)

LifecyclePast ==
    /\ tmCfg = [create_timing |-> "same_day", delete_timing |-> "day_after"]
    /\ tmEvent = [start |-> EventDay * Day + 20 * Hour, duration |-> 3]
    /\ tmNow = (EventDay + 2) * Day

OutsideWindow ==
    LET delete_threshold == _calculate_delete_threshold(tmEvent, tmCfg.delete_timing)
        create_threshold == _calculate_create_threshold(tmEvent, tmCfg.create_timing) IN
    \/ delete_threshold # NoTime /\ tmNow >= delete_threshold
    \/ tmCfg.create_timing # "stream_available" /\ tmNow < create_threshold

\* C32: a final event outside the lifecycle window is categorized EVENT_FINAL
\* by categorize_event_timing, whatever include_final_events is.
C32_FinalOutsideWindowIsEventFinal ==
    ( /\ tmCat.result # NotCategorized
      /\ is_event_final(tmCat.state)
      /\ OutsideWindow )
    => tmCat.result = "EVENT_FINAL"

\* C33: after complete_generation() or fail_generation(), and until the next
\* successful start_generation(), a late update_status() call changes neither
\* the reported status nor the reported progress.
C33_LateUpdateIgnored ==
    [][ ( /\ ~status.in_progress
          /\ genLast'.op = "update" )
        => get_status' = get_status ]_vars

\* C34: whenever refresh() returns (success, exception, or no providers
\* registered) refresh_in_progress is false.
C34_FlagClearedOnReturn ==
    \A r \in Refreshers : rf[r].pc = "done" => ~cacheMeta.refresh_in_progress

\* C35: a refresh that fails does not advance last_full_refresh and does not
\* overwrite the recorded league and team counts: a cache that was stale
\* before the failed refresh is still reported stale after it.
C35_FailedRefreshKeepsMeta ==
    [][ \A r \in Refreshers :
          (rf[r].pc = "failed" /\ rf'[r].pc # "failed")
          => /\ cacheMeta'.last_full_refresh = cacheMeta.last_full_refresh
             /\ cacheMeta'.leagues_count = cacheMeta.leagues_count
             /\ cacheMeta'.teams_count = cacheMeta.teams_count
             /\ is_stale(cacheMeta, today) => is_stale(cacheMeta', today') ]_vars

\* C36: after a successful refresh cache_meta.teams_count and
\* cache_meta.leagues_count equal the number of rows stored in team_cache and
\* league_cache.
C36_CountsMatchStoredRows ==
    \A r \in Refreshers :
        (rf[r].pc = "done" /\ rf[r].result = "success")
        => /\ cacheMeta.teams_count = Cardinality(teamCache)
           /\ cacheMeta.leagues_count = Cardinality(leagueCache)

\* C37: no two not-deleted channels that belong to different groups carry the
\* same channel number given by get_next_channel_number, for any mix of
\* manual and auto groups and any order of assignments.
C37_NumberUniqueAcrossGroups ==
    \A i, j \in DOMAIN numChannels :
        ( /\ i # j
          /\ ~numChannels[i].deleted /\ ~numChannels[j].deleted
          /\ numChannels[i].event_epg_group_id # numChannels[j].event_epg_group_id )
        => numChannels[i].channel_number # numChannels[j].channel_number

\* the enabled groups that hold a start number, and the last channel of the
\* highest range they reserve
ReservedGroups ==
    {g \in DOMAIN epgGroups : /\ epgGroups[g].enabled
                              /\ epgGroups[g].channel_start_number # NoInt}

HighestReserved ==
    SetMax({epgGroups[g].channel_start_number
              + (IF Falsy(epgGroups[g].total_stream_count) THEN 10
                 ELSE epgGroups[g].total_stream_count) - 1 : g \in ReservedGroups})

\* the lowest number ending in 1 that is above n
NextX1Above(n) == IF n % 10 = 0 THEN n + 1 ELSE ((n \div 10) + 1) * 10 + 1

\* C40: the start number auto-assigned to a MANUAL group that has none is the
\* next x1 boundary above the highest reserved channel: 111 for a highest
\* reserved channel of 105, and 111 for a highest reserved channel of 110.
C40_AutoAssignedStartIsNextX1 ==
    [][ \A g \in DOMAIN epgGroups :
          ( /\ ReservedGroups # {}
            /\ HighestReserved >= get_global_channel_range(Db)[1]
            /\ epgGroups[g].channel_start_number = NoInt
            /\ epgGroups'[g].channel_start_number # NoInt )
          => epgGroups'[g].channel_start_number = NextX1Above(HighestReserved) ]_vars

\* C38: for any sequence of start() and stop() calls, a start() after a
\* stop() that timed out included, at most one scheduler loop thread is
\* alive; start() on a running scheduler returns False and creates no thread.
C38_AtMostOneLoopThread ==
    /\ [](Cardinality(AliveLoops) <= 1)
    /\ [][ (is_running(schedObj) /\ schedObj'.last.op = "start" /\ schedObj'.last # schedObj.last)
           => (~schedObj'.last.ret /\ schedObj'.pc = schedObj.pc) ]_vars

\* the HTTP attempt of the current call that was answered by the first 401
\* (0 when there is none): the attempts up to it are the first
\* authentication round, the attempts after it the second
FirstUnauthorized ==
    LET hits == {i \in DOMAIN http.outcomes : http.outcomes[i] = Response(401)} IN
    IF hits = {} THEN 0 ELSE CHOOSE i \in hits : \A j \in hits : i <= j

FirstRound == IF FirstUnauthorized = 0 THEN Len(http.outcomes) ELSE FirstUnauthorized
SecondRound == IF FirstUnauthorized = 0 THEN 0 ELSE Len(http.outcomes) - FirstUnauthorized

\* C39: DispatcharrClient.request always terminates; it re-authenticates at
\* most once per call (a 401 after the re-authentication is returned) and
\* makes at most max_retries + 1 HTTP attempts per authentication round,
\* whatever responses and errors the server produces.
C39_RequestTerminates ==
    /\ [](/\ FirstRound <= MaxRetries + 1
          /\ SecondRound <= MaxRetries + 1
          /\ \A i \in (FirstUnauthorized + 1)..Len(http.outcomes) :
                http.outcomes[i] = Response(401)
                => (i = Len(http.outcomes) /\ http.pc = "done" /\ http.ret = Response(401)))
    /\ (http.pc \in {"token", "attempt"}) ~> (http.pc = "done")

\* C39 witness: a call returned after a re-authentication and the full number
\* of attempts in both rounds
C39_Witness ==
    /\ http.pc = "done"
    /\ FirstUnauthorized = MaxRetries + 1
    /\ SecondRound = MaxRetries + 1

====
